---- MODULE Spec2Model ----
(***************************************************************************)
(* Project Sentinel detection pipeline: the detectors of                   *)
(* src/submission-structure/*/src/detectors as state machines.  Every      *)
(* handler of a detector is one action; a detector is checked under its    *)
(* own specification, in which the state of the other detectors stays at   *)
(* its initial value.  Timestamps are whole seconds; an event field that   *)
(* is missing is None (NoTs for a timestamp) and a timestamp string that   *)
(* datetime.fromisoformat rejects is BadTs.                                *)
(***************************************************************************)
EXTENDS Integers, Sequences, FiniteSets, TLC

None == "None"
NoTs == -1
BadTs == -2

Stations == {"SCC1"}
Skus == {"A", "B"}

\* all([...]) over event fields: a field counts when it is present and truthy
Present(x) == x # None
PresentTs(t) == t # NoTs
\* datetime.fromisoformat succeeds
Parses(t) == t >= 0

VARIABLES
    now,                  \* datetime.now() as seen by the periodic sweeps
    rfid_items_in_area,   \* ScanAvoidance: station -> sku -> first-seen timestamp (NoTs: no record)
    recent_scans,         \* ScanAvoidance: station -> set of recorded scans
    sa_alerts_generated,  \* ScanAvoidance: dedupe keys
    sa_last,              \* ScanAvoidance: the last call and what it returned
    sa_phase,             \* history: phase of the current presence of (station, sku)
    sa_count,             \* history: alerts produced for the current presence
    sa_exit,              \* history: the exit read of the current presence
    station_last_activity, \* SystemCrash: station -> timestamp of its last event (NoTs: none)
    station_status,       \* SystemCrash: station -> last reported status (None: none)
    active_crashes,       \* SystemCrash: station -> open crash period (NoCrash: none)
    crash_periods,        \* SystemCrash: station -> closed crash periods, in order
    sc_last,              \* SystemCrash: the last call and what it returned
    sc_prev,              \* history: the last status-bearing event of each station
    sc_open,              \* history: crash periods opened and not yet closed, per station
    sc_events,             \* history: station events processed so far
    recorded_inventory,   \* Inventory: sku -> recorded count (NoCount: not recorded)
    rfid_detected,        \* Inventory: rfid_counts has its "DETECTED" entry
    rfid_tally,           \* Inventory: sku -> rfid_counts["DETECTED"][sku] (0 when missing)
    rfid_baseline_established,\* Inventory: the warm-up flag
    inv_last,             \* Inventory: the last call and what it returned
    inv_seen,             \* history: well-formed RFID reads observed, up to the warm-up
    inv_pos,               \* history: POS transactions processed so far
    product_catalog,      \* Weight: sku -> expected weight in grams (NotInCatalog: no entry)
    wd_last,               \* Weight: the last POS transaction and what the detector returned
    price_catalog,        \* Barcode: sku -> catalog price (NotInCatalog: no entry)
    recognition_events,   \* Barcode: station -> stored recognitions, in arrival order
    bs_alerts_generated,  \* Barcode: the alert keys already used
    bs_last,               \* Barcode: the last call and what it returned
    queue_history,        \* Queue: station -> stored snapshots, in arrival order
    qm_last,               \* Queue: the last call and what it returned
    successful_transactions,\* Success: the rolling ledger, in arrival order
    last_success_per_station,\* Success: station -> timestamp of its last success (NoTs: none)
    so_last,              \* Success: the last call and what it returned
    so_eligible,          \* Success: history, the number of eligible transactions fed so far
    so_alerts,             \* Success: history, the number of alerts returned so far
    sh_last,               \* Shapes: the last shaped event fed, what it gave and what its twin shape gives
    running,              \* Engine: DetectionEngine.running
    stream_running,       \* Engine: StreamingDataClient.running
    started,              \* Engine: start() has spawned the three threads
    alert_queue,          \* Engine: the pull queue, oldest first
    saved_events,         \* Engine: the in-memory list that is persisted
    alerts_generated,     \* Engine: stats["alerts_generated"]
    events_processed,     \* Engine: stats["events_processed"]
    events_file,          \* Engine: the persisted JSON array on disk
    export_file,          \* Engine: the newline-delimited export on disk
    pc,                   \* Engine: thread -> where it stands
    cur,                  \* Engine: thread -> the alert its _add_alert call is handling (NoAlert: none)
    tmp,                  \* Engine: thread -> the counter value its increment has read
    tick_state,           \* Engine: worker -> never_failed, failed (a tick raised), ticked_again (a tick began after that)
    put_log,              \* Engine: history, every alert ever put on the queue, in order
    pulled,               \* Engine: history, every alert ever returned by a pull, in order
    escaped,              \* Engine: history, an exception left _add_alert
    late,                 \* Engine: history, the threads that began a dispatch or a tick after stop() returned
    queued_at_stop,       \* Engine: history, the alerts that had been put on the queue when stop() last returned
    eng_last,              \* Engine: the last call on the engine's API and what it returned
    dq_last,               \* Dispatch: the last queue event dispatched, which detector raised, which were invoked, what reached _add_alert
    sa_station_keys,      \* Sweep: the stations that have an entry in rfid_items_in_area
    sw_pc,                \* Sweep: timeout / cleanup worker -> where it stands in its pass over rfid_items_in_area
    sw_iter,              \* Sweep: the dict iterator of check_timeout_alerts, its current_time and its local alerts list
    sw_clean,             \* Sweep: the key list cleanup_old_data walks, and its cutoff
    sw_sunk,              \* Sweep: the alerts of sweeps handed to _add_alert
    sw_expired,           \* Sweep: history, the alerts built for the records a sweep removed
    sw_overlap,           \* Sweep: history, which task changed the records while which other was walking them
    sw_reads,              \* Sweep: history, RFID reads ingested so far
    events_by_station,    \* Correlator: station -> indexed events, in insertion order (<<>>: no entry)
    events_by_customer,   \* Correlator: customer -> indexed events, in insertion order (<<>>: no entry)
    ec_serial,            \* Correlator: the number of enriched events built so far; the next one's id() is ec_serial + 1
    ec_last,               \* Correlator: the last call, the indices before it and what it returned
    ct_lock,              \* Correlator threads: the holder of EventCorrelator.lock ("free" when not held)
    ct_pc,                \* Correlator threads: where the ingestion thread and the cleanup task stand in their call
    ct_keys,              \* Correlator threads: the keys of the two index dicts
    ct_ingest,            \* Correlator threads: the ingestion thread's call, its locals, and what it saw and returned
    ct_cleanup,            \* Correlator threads: the cleanup task's call, its locals, and the indices before and after
    lc_workers,           \* Lifecycle: <<worker loop, number of the start() that spawned it>> -> unborn, loop, sleep, tick, done
    lc_starts,            \* Lifecycle: how many start() calls have spawned workers
    lc_stopped,           \* Lifecycle: history, the worker threads that were live when some stop() was called
    lc_last,               \* Lifecycle: the last call on the engine, whether running was set before it and what it spawned
    cp_pc,                \* Pulls: consumer thread -> idle, check (the loop condition), get (inside Queue.get)
    cp_call,              \* Pulls: consumer thread -> the running call's max_alerts, alerts and count
    cp_raced,             \* Pulls: history, consumer thread -> another consumer took an alert after this one's emptiness check
    cp_puts,              \* Pulls: how many alerts the engine has put on the queue
    cp_calls              \* Pulls: how many pulls have been called

saVars == <<rfid_items_in_area, recent_scans, sa_alerts_generated, sa_last,
            sa_phase, sa_count, sa_exit>>

scVars == <<station_last_activity, station_status, active_crashes, crash_periods,
            sc_last, sc_prev, sc_open, sc_events>>

invVars == <<recorded_inventory, rfid_detected, rfid_tally, rfid_baseline_established, inv_last, inv_seen, inv_pos>>

wdVars == <<product_catalog, wd_last>>

bsVars == <<price_catalog, recognition_events, bs_alerts_generated, bs_last>>

qmVars == <<queue_history, qm_last>>

soVars == <<successful_transactions, last_success_per_station, so_last, so_eligible, so_alerts>>

shVars == <<sh_last>>

engVars == <<running, stream_running, started, alert_queue, saved_events, alerts_generated, events_processed, events_file, export_file, pc, cur, tmp, tick_state, put_log, pulled, escaped, late, queued_at_stop, eng_last>>

dqVars == <<dq_last>>

swVars == <<sa_station_keys, sw_pc, sw_iter, sw_clean, sw_sunk, sw_expired, sw_overlap, sw_reads>>

ecVars == <<events_by_station, events_by_customer, ec_serial, ec_last>>

ctVars == <<ct_lock, ct_pc, ct_keys, ct_ingest, ct_cleanup>>

lcVars == <<lc_workers, lc_starts, lc_stopped, lc_last>>

cpVars == <<cp_pc, cp_call, cp_raced, cp_puts, cp_calls>>

vars == <<now, saVars, scVars, invVars, wdVars, bsVars, qmVars, soVars, shVars, engVars, dqVars, swVars, ecVars, ctVars, lcVars, cpVars>>

(***************************************************************************)
(* ScanAvoidanceDetector                                                   *)
(***************************************************************************)
ScanTimeout == 60
HighDwell == 30
SAScanRetention == 3600

\* the instants of a ScanAvoidance run, in seconds: the first NumSATimes of these
SATimePoints == <<0, 30, 90, 60, 120, 150>>
NumSATimes == 3
SATimes == {SATimePoints[i] : i \in 1..NumSATimes}
MaxScans == 2
CountCap == 2

Locations == {"IN_SCAN_AREA", "OUT_OF_AREA", "OUT_SCAN_AREA"}


\* _was_item_scanned: a recorded scan of the sku with start <= timestamp <= end
WasItemScanned(scans, sku, start_time, end_time) ==
    \E s \in scans : s.sku = sku /\ start_time <= s.timestamp /\ s.timestamp <= end_time

\* _generate_scan_avoidance_alert
ScanAvoidanceAlert(station_id, sku, entry_time, dwell_seconds) ==
    [event_name |-> "Scanner Avoidance", station_id |-> station_id,
     product_sku |-> sku, entry_time |-> entry_time,
     dwell_time_seconds |-> dwell_seconds,
     severity |-> IF dwell_seconds > HighDwell THEN "HIGH" ELSE "MEDIUM",
     alert_type |-> "EXIT"]

ExitKey(station_id, sku, timestamp) == <<station_id, sku, "exit", timestamp>>
TimeoutKey(station_id, sku, current_time) == <<station_id, sku, "timeout", current_time>>

Bump(n) == IF n < CountCap THEN n + 1 ELSE n

NoExit == [dwell |-> 0, severity |-> "NONE"]

PutItem(items, station_id, sku, timestamp) ==
    [items EXCEPT ![station_id][sku] = timestamp]

DelItem(items, station_id, sku) ==
    [items EXCEPT ![station_id][sku] = NoTs]

HasItem(items, station_id, sku) ==
    items[station_id][sku] # NoTs

RfidWellFormed(station_id, sku, location, timestamp) ==
    /\ Present(station_id) /\ Present(sku) /\ Present(location) /\ PresentTs(timestamp)
    /\ Parses(timestamp)

\* the exit read of an open record returns an alert: not scanned, key not used yet
ExitAlerts(items, scans, keys, station_id, sku, timestamp) ==
    ~WasItemScanned(scans[station_id], sku, items[station_id][sku], timestamp)
        /\ ExitKey(station_id, sku, timestamp) \notin keys

\* process_rfid_event as a function of the detector's state:
\* the state after the call and the alert it returns (a set: empty for None)
ProcessRfidEvent(items, scans, keys, station_id, sku, location, timestamp) ==
    IF ~RfidWellFormed(station_id, sku, location, timestamp)
    THEN [items |-> items, keys |-> keys, alerts |-> {}]
    ELSE IF location = "IN_SCAN_AREA"
    THEN [items |-> PutItem(items, station_id, sku, timestamp), keys |-> keys, alerts |-> {}]
    ELSE IF location = "OUT_OF_AREA" /\ HasItem(items, station_id, sku)
    THEN IF ExitAlerts(items, scans, keys, station_id, sku, timestamp)
         THEN [items |-> items,
               keys |-> keys \cup {ExitKey(station_id, sku, timestamp)},
               alerts |-> {ScanAvoidanceAlert(station_id, sku, items[station_id][sku],
                                              timestamp - items[station_id][sku])}]
         ELSE [items |-> DelItem(items, station_id, sku), keys |-> keys, alerts |-> {}]
    ELSE [items |-> items, keys |-> keys, alerts |-> {}]

PosWellFormed(station_id, sku, timestamp) ==
    Present(station_id) /\ Present(sku) /\ PresentTs(timestamp) /\ Parses(timestamp)

\* process_pos_event: the scans of the station after the call
ScansAfterPos(scans, station_id, sku, timestamp) ==
    [scans EXCEPT ![station_id] =
        {s \in @ \cup {[sku |-> sku, timestamp |-> timestamp]} :
            s.timestamp >= timestamp - SAScanRetention}]

ItemsAfterPos_NoRemoval(items, station_id, sku) ==
    items

\* process_pos_event: the presence records after the call
ItemsAfterPos(items, station_id, sku) ==
    IF HasItem(items, station_id, sku) THEN DelItem(items, station_id, sku) ELSE items

TimedOut_AtTimeout(items, keys, current_time) ==
    {p \in Stations \X Skus :
        /\ HasItem(items, p[1], p[2])
        /\ current_time - items[p[1]][p[2]] >= ScanTimeout
        /\ TimeoutKey(p[1], p[2], current_time) \notin keys}

\* check_timeout_alerts: the records the sweep expires at current_time
TimedOut(items, keys, current_time) ==
    {p \in Stations \X Skus :
        /\ HasItem(items, p[1], p[2])
        /\ current_time - items[p[1]][p[2]] > ScanTimeout
        /\ TimeoutKey(p[1], p[2], current_time) \notin keys}

TimeoutAlert(items, p, current_time) ==
    [ScanAvoidanceAlert(p[1], p[2], items[p[1]][p[2]], current_time - items[p[1]][p[2]])
        EXCEPT !.alert_type = "TIMEOUT"]

\* history of the presence of (station, sku) across a well-formed RFID read
PhaseAfterRfid(phase, items, scans, keys, station_id, sku, location, timestamp) ==
    IF location = "IN_SCAN_AREA"
    THEN "present"
    ELSE IF location = "OUT_OF_AREA" /\ HasItem(items, station_id, sku) /\ phase = "present"
    THEN IF WasItemScanned(scans[station_id], sku, items[station_id][sku], timestamp)
         THEN "exitedScanned"
         ELSE IF ExitKey(station_id, sku, timestamp) \in keys
         THEN "exitedReplay"
         ELSE "exited"
    ELSE IF location = "OUT_OF_AREA" /\ phase = "scanned"
    THEN "scannedExited"
    ELSE phase

\* the RFID reads fed to the detector: the tracked item at every location and
\* instant, and one read for each way a read can be incomplete
TrackedSkus == {"A"}
RfidEvents ==
    [station_id : Stations, sku : TrackedSkus, location : Locations, timestamp : SATimes]
    \cup {[station_id |-> None, sku |-> "A", location |-> "IN_SCAN_AREA", timestamp |-> 0],
          [station_id |-> "SCC1", sku |-> None, location |-> "IN_SCAN_AREA", timestamp |-> 0],
          [station_id |-> "SCC1", sku |-> "A", location |-> None, timestamp |-> 0],
          [station_id |-> "SCC1", sku |-> "A", location |-> "IN_SCAN_AREA", timestamp |-> NoTs],
          [station_id |-> "SCC1", sku |-> "A", location |-> "OUT_OF_AREA", timestamp |-> BadTs]}

\* the POS scans fed to the detector
PosScanEvents ==
    [station_id : Stations, sku : Skus, timestamp : SATimes]
    \cup {[station_id |-> None, sku |-> "A", timestamp |-> 0],
          [station_id |-> "SCC1", sku |-> None, timestamp |-> 0],
          [station_id |-> "SCC1", sku |-> "A", timestamp |-> NoTs],
          [station_id |-> "SCC1", sku |-> "A", timestamp |-> BadTs]}

SAInit ==
    /\ rfid_items_in_area = [st \in Stations |-> [k \in Skus |-> NoTs]]
    /\ recent_scans = [st \in Stations |-> {}]
    /\ sa_alerts_generated = {}
    /\ sa_last = {}
    /\ sa_phase = [st \in Stations |-> [k \in Skus |-> "absent"]]
    /\ sa_count = [st \in Stations |-> [k \in Skus |-> 0]]
    /\ sa_exit = [st \in Stations |-> [k \in Skus |-> NoExit]]

\* ScanAvoidanceDetector.process_rfid_event
SA_process_rfid_event(station_id, sku, location, timestamp) ==
    LET r == ProcessRfidEvent(rfid_items_in_area, recent_scans, sa_alerts_generated,
                              station_id, sku, location, timestamp)
        wf == RfidWellFormed(station_id, sku, location, timestamp)
        ph == IF wf
              THEN PhaseAfterRfid(sa_phase[station_id][sku], rfid_items_in_area, recent_scans,
                                  sa_alerts_generated, station_id, sku, location, timestamp)
              ELSE "absent"
    IN  /\ rfid_items_in_area' = r.items
        /\ sa_alerts_generated' = r.keys
        /\ sa_last' = r.alerts
        /\ UNCHANGED recent_scans
        /\ IF ~wf
           THEN UNCHANGED <<sa_phase, sa_count, sa_exit>>
           ELSE /\ sa_phase' = [sa_phase EXCEPT ![station_id][sku] = ph]
                /\ sa_count' = [sa_count EXCEPT ![station_id][sku] =
                        IF location = "IN_SCAN_AREA" THEN 0
                        ELSE IF r.alerts # {} THEN Bump(@) ELSE @]
                /\ sa_exit' = [sa_exit EXCEPT ![station_id][sku] =
                        IF location = "IN_SCAN_AREA" THEN NoExit
                        ELSE IF ph = "exited" /\ sa_phase[station_id][sku] = "present"
                        THEN [dwell |-> timestamp - rfid_items_in_area[station_id][sku],
                              severity |-> IF r.alerts = {} THEN "NONE"
                                           ELSE (CHOOSE a \in r.alerts : TRUE).severity]
                        ELSE @]

\* ScanAvoidanceDetector.process_pos_event
SA_process_pos_event(station_id, sku, timestamp) ==
    /\ sa_last' = {}
    /\ UNCHANGED <<sa_alerts_generated, sa_count, sa_exit>>
    /\ IF ~PosWellFormed(station_id, sku, timestamp)
       THEN UNCHANGED <<rfid_items_in_area, recent_scans, sa_phase>>
       ELSE /\ Cardinality(ScansAfterPos(recent_scans, station_id, sku, timestamp)[station_id])
                  <= MaxScans
            /\ recent_scans' = ScansAfterPos(recent_scans, station_id, sku, timestamp)
            /\ rfid_items_in_area' = ItemsAfterPos(rfid_items_in_area, station_id, sku)
            /\ sa_phase' = [sa_phase EXCEPT ![station_id][sku] =
                    IF @ = "present" THEN "scanned" ELSE @]

\* ScanAvoidanceDetector.check_timeout_alerts, with datetime.now() = current_time
SA_check_timeout_alerts(current_time) ==
    LET out == TimedOut(rfid_items_in_area, sa_alerts_generated, current_time)
    IN  /\ sa_last' = {TimeoutAlert(rfid_items_in_area, p, current_time) : p \in out}
        /\ sa_alerts_generated' =
                sa_alerts_generated \cup {TimeoutKey(p[1], p[2], current_time) : p \in out}
        /\ rfid_items_in_area' = [st \in Stations |-> [k \in Skus |->
                IF <<st, k>> \in out THEN NoTs ELSE rfid_items_in_area[st][k]]]
        /\ sa_count' = [st \in Stations |-> [k \in Skus |->
                IF <<st, k>> \in out THEN Bump(sa_count[st][k]) ELSE sa_count[st][k]]]
        /\ sa_phase' = [st \in Stations |-> [k \in Skus |->
                IF <<st, k>> \in out /\ sa_phase[st][k] = "present"
                THEN "expired" ELSE sa_phase[st][k]]]
        /\ UNCHANGED <<recent_scans, sa_exit>>

(***************************************************************************)
(* SystemCrashDetector                                                     *)
(***************************************************************************)
MinCrashDuration == 30
HighCrashDuration == 300
InactivityTimeout == 300

\* the instants of a SystemCrash run, in seconds: the first NumSCTimes of these
SCTimePoints == <<0, 30, 330, 20, 660, 700>>
NumSCTimes == 3
SCTimes == {SCTimePoints[i] : i \in 1..NumSCTimes}
MaxSCEvents == 4

ErrorStatuses == {"Error", "Offline", "Maintenance"}
RecoverableStatuses == {"Error", "Offline"}
Statuses == {"Active"} \cup ErrorStatuses

NoCrash == [start_time |-> NoTs, status |-> None]
NoPrev == [status |-> None, timestamp |-> NoTs, opened |-> FALSE]

\* _generate_system_crash_alert, for a call that passes a duration
SystemCrashAlert(station_id, error_type, timestamp, duration_seconds, crash_type) ==
    [event_name |-> "Unexpected Systems Crash", station_id |-> station_id,
     error_type |-> error_type, crash_type |-> crash_type, crash_timestamp |-> timestamp,
     duration_seconds |-> duration_seconds,
     severity |-> IF duration_seconds > HighCrashDuration THEN "HIGH" ELSE "MEDIUM"]

HandleStationError_NoGuard(crashes, station_id, status, timestamp) ==
    [crashes |-> [crashes EXCEPT ![station_id] = [start_time |-> timestamp, status |-> status]],
     opened |-> 1]

\* _handle_station_error: the open crash periods after the call, and how many it opened
HandleStationError(crashes, station_id, status, timestamp) ==
    IF crashes[station_id] = NoCrash
    THEN [crashes |-> [crashes EXCEPT ![station_id] =
                            [start_time |-> timestamp, status |-> status]],
          opened |-> 1]
    ELSE [crashes |-> crashes, opened |-> 0]

HandleStationRecovery_StrictMinimum(crashes, periods, station_id, timestamp) ==
    IF crashes[station_id] # NoCrash
    THEN LET start_time == crashes[station_id].start_time
             duration == timestamp - start_time
         IN  IF duration > MinCrashDuration
             THEN [crashes |-> [crashes EXCEPT ![station_id] = NoCrash],
                   periods |-> [periods EXCEPT ![station_id] = Append(@,
                        [start_time |-> start_time, end_time |-> timestamp,
                         duration_seconds |-> duration, status |-> crashes[station_id].status])],
                   alerts |-> {SystemCrashAlert(station_id, crashes[station_id].status,
                                                start_time, duration, "SYSTEM_CRASH")},
                   closed |-> 1]
             ELSE [crashes |-> [crashes EXCEPT ![station_id] = NoCrash],
                   periods |-> periods, alerts |-> {}, closed |-> 1]
    ELSE [crashes |-> crashes, periods |-> periods, alerts |-> {}, closed |-> 0]

\* _handle_station_recovery: the open and the closed crash periods after the call,
\* the alert it returns (a set: empty for None) and how many periods it closed
HandleStationRecovery(crashes, periods, station_id, timestamp) ==
    IF crashes[station_id] # NoCrash
    THEN LET start_time == crashes[station_id].start_time
             duration == timestamp - start_time
         IN  IF duration >= MinCrashDuration
             THEN [crashes |-> [crashes EXCEPT ![station_id] = NoCrash],
                   periods |-> [periods EXCEPT ![station_id] = Append(@,
                        [start_time |-> start_time, end_time |-> timestamp,
                         duration_seconds |-> duration, status |-> crashes[station_id].status])],
                   alerts |-> {SystemCrashAlert(station_id, crashes[station_id].status,
                                                start_time, duration, "SYSTEM_CRASH")},
                   closed |-> 1]
             ELSE [crashes |-> [crashes EXCEPT ![station_id] = NoCrash],
                   periods |-> periods, alerts |-> {}, closed |-> 1]
    ELSE [crashes |-> crashes, periods |-> periods, alerts |-> {}, closed |-> 0]

StationEventWellFormed(station_id, timestamp) ==
    Present(station_id) /\ PresentTs(timestamp) /\ Parses(timestamp)

\* process_station_event after the field checks: what the status branch does
StationStatusBranch(crashes, periods, previous_status, station_id, status, timestamp) ==
    IF Present(status) /\ status \in ErrorStatuses
    THEN LET r == HandleStationError(crashes, station_id, status, timestamp)
         IN  [crashes |-> r.crashes, periods |-> periods, alerts |-> {},
              opened |-> r.opened, closed |-> 0]
    ELSE IF Present(status) /\ status = "Active" /\ previous_status \in RecoverableStatuses
    THEN LET r == HandleStationRecovery(crashes, periods, station_id, timestamp)
         IN  [crashes |-> r.crashes, periods |-> r.periods, alerts |-> r.alerts,
              opened |-> 0, closed |-> r.closed]
    ELSE [crashes |-> crashes, periods |-> periods, alerts |-> {}, opened |-> 0, closed |-> 0]

InactiveStations_OpenOrNot(last_activity, crashes, current_time) ==
    {st \in Stations :
        /\ last_activity[st] # NoTs
        /\ current_time - last_activity[st] >= InactivityTimeout}

\* check_station_timeouts: the stations the sweep flags at current_time
InactiveStations(last_activity, crashes, current_time) ==
    {st \in Stations :
        /\ last_activity[st] # NoTs
        /\ crashes[st] = NoCrash
        /\ current_time - last_activity[st] >= InactivityTimeout}

SCInit ==
    /\ station_last_activity = [st \in Stations |-> NoTs]
    /\ station_status = [st \in Stations |-> None]
    /\ active_crashes = [st \in Stations |-> NoCrash]
    /\ crash_periods = [st \in Stations |-> <<>>]
    /\ sc_last = [op |-> "none", station_id |-> None, status |-> None, timestamp |-> NoTs,
                  alerts |-> {}, prev |-> NoPrev, had_open |-> FALSE, recorded |-> 0]
    /\ sc_prev = [st \in Stations |-> NoPrev]
    /\ sc_open = [st \in Stations |-> 0]
    /\ sc_events = 0

\* SystemCrashDetector.process_station_event
SC_process_station_event(station_id, status, timestamp) ==
    IF ~StationEventWellFormed(station_id, timestamp)
    THEN /\ sc_last' = [op |-> "event", station_id |-> station_id, status |-> status,
                        timestamp |-> timestamp, alerts |-> {}, prev |-> NoPrev,
                        had_open |-> FALSE, recorded |-> 0]
         /\ UNCHANGED <<station_last_activity, station_status, active_crashes, crash_periods,
                        sc_prev, sc_open>>
    ELSE LET r == StationStatusBranch(active_crashes, crash_periods,
                                      station_status[station_id], station_id, status, timestamp)
         IN  /\ station_last_activity' = [station_last_activity EXCEPT ![station_id] = timestamp]
             /\ station_status' = [station_status EXCEPT ![station_id] =
                                        IF Present(status) THEN status ELSE @]
             /\ active_crashes' = r.crashes
             /\ crash_periods' = r.periods
             /\ sc_last' = [op |-> "event", station_id |-> station_id, status |-> status,
                            timestamp |-> timestamp, alerts |-> r.alerts,
                            prev |-> sc_prev[station_id],
                            had_open |-> active_crashes[station_id] # NoCrash,
                            recorded |-> Len(r.periods[station_id])
                                            - Len(crash_periods[station_id])]
             /\ sc_prev' = [sc_prev EXCEPT ![station_id] =
                                IF Present(status)
                                THEN [status |-> status, timestamp |-> timestamp,
                                      opened |-> r.opened = 1]
                                ELSE @]
             /\ sc_open' = [sc_open EXCEPT ![station_id] = @ + r.opened - r.closed]

\* SystemCrashDetector.check_station_timeouts, with datetime.now() = current_time
SC_check_station_timeouts(current_time) ==
    LET flagged == InactiveStations(station_last_activity, active_crashes, current_time)
    IN  /\ active_crashes' = [st \in Stations |->
                IF st \in flagged
                THEN [start_time |-> station_last_activity[st], status |-> "INACTIVE"]
                ELSE active_crashes[st]]
        /\ sc_last' = [op |-> "sweep", station_id |-> None, status |-> None,
                       timestamp |-> current_time,
                       alerts |-> {SystemCrashAlert(st, "INACTIVITY_TIMEOUT",
                                        station_last_activity[st],
                                        current_time - station_last_activity[st], "TIMEOUT")
                                   : st \in flagged},
                       prev |-> NoPrev,
                       had_open |-> \E st \in Stations : active_crashes[st] # NoCrash,
                       recorded |-> 0]
        /\ sc_open' = [st \in Stations |->
                IF st \in flagged THEN sc_open[st] + 1 ELSE sc_open[st]]
        /\ UNCHANGED <<station_last_activity, station_status, crash_periods, sc_prev>>

\* the station events fed to the detector: every event of every stream carries a
\* station, a timestamp and possibly a status
StationEvents ==
    [station_id : Stations, status : Statuses \cup {None}, timestamp : SCTimes]
    \cup {[station_id |-> None, status |-> "Error", timestamp |-> 0],
          [station_id |-> "SCC1", status |-> "Error", timestamp |-> NoTs],
          [station_id |-> "SCC1", status |-> "Active", timestamp |-> BadTs]}

(***************************************************************************)
(* InventoryDiscrepancyDetector.  last_inventory_snapshot and the          *)
(* pos_transactions ledger are written and never read by a check, and are  *)
(* left out; percentage_difference, a rounded float, is left out of the    *)
(* alert.  The percentage is compared exactly: for counts this small       *)
(* (difference / max(recorded, 1)) * 100 >= 50.0 in doubles is             *)
(* |difference| * 100 >= 50 * max(recorded, 1).                            *)
(***************************************************************************)
DiscrepancyThreshold == 50
MinRfidEventsForBaseline == 20
InvHighPercentage == 25
MaxTally == 21
MaxInvPos == 2

NoCount == -1
NoData == [k \in Skus |-> NoCount]
InvSnapshots ==
    {NoData,
     [k \in Skus |-> IF k = "A" THEN 10 ELSE NoCount],
     [k \in Skus |-> IF k = "A" THEN 10 ELSE 0],
     [k \in Skus |-> IF k = "A" THEN 30 ELSE 1]}

Abs(x) == IF x < 0 THEN 0 - x ELSE x
Max(a, b) == IF a >= b THEN a ELSE b

\* line 57, sum(location_counts.values() for ...): sum() adds a dict_values
\* object to 0 for every entry of rfid_counts, which raises TypeError; with no
\* entry the total is 0
BaselineTotal(detected, tally) ==
    IF detected THEN [raises |-> TRUE, total |-> 0] ELSE [raises |-> FALSE, total |-> 0]

\* _calculate_discrepancy returns None when both counts are 0; otherwise its
\* percentage is compared with the threshold
ReachesThreshold(recorded, rfid) ==
    /\ ~(recorded = 0 /\ rfid = 0)
    /\ Abs(rfid - recorded) * 100 >= DiscrepancyThreshold * Max(recorded, 1)

\* _generate_inventory_discrepancy_alert on the result of _calculate_discrepancy
InventoryDiscrepancyAlert(sku, recorded_count, rfid_count, timestamp) ==
    [event_name |-> "Inventory Discrepancy", SKU |-> sku,
     Expected_Inventory |-> recorded_count, Actual_Inventory |-> rfid_count,
     difference |-> rfid_count - recorded_count,
     discrepancy_type |-> IF rfid_count - recorded_count > 0 THEN "OVERAGE" ELSE "SHORTAGE",
     severity |-> IF Abs(rfid_count - recorded_count) * 100
                        > InvHighPercentage * Max(recorded_count, 1)
                  THEN "HIGH" ELSE "MEDIUM",
     timestamp |-> timestamp]

SnapshotAlerts_BothDirections(recorded, tally, timestamp) ==
    {InventoryDiscrepancyAlert(k, recorded[k], tally[k], timestamp) :
        k \in {x \in Skus : /\ recorded[x] # NoCount
                            /\ ReachesThreshold(recorded[x], tally[x])}}

\* the loop of process_inventory_snapshot over the recorded SKUs
SnapshotAlerts(recorded, tally, timestamp) ==
    {InventoryDiscrepancyAlert(k, recorded[k], tally[k], timestamp) :
        k \in {x \in Skus : /\ recorded[x] # NoCount
                            /\ tally[x] > recorded[x]
                            /\ ReachesThreshold(recorded[x], tally[x])}}

\* process_inventory_snapshot after the field checks: what it returns or raises,
\* and the warm-up flag afterwards
SnapshotOutcome(established, detected, data, tally, timestamp) ==
    LET t == BaselineTotal(detected, tally)
    IN  IF ~established /\ t.raises
        THEN [result |-> "TypeError", alerts |-> {}, established |-> established]
        ELSE IF ~established /\ t.total < MinRfidEventsForBaseline
        THEN [result |-> "returned", alerts |-> {}, established |-> established]
        ELSE [result |-> "returned", alerts |-> SnapshotAlerts(data, tally, timestamp),
              established |-> TRUE]

InvLast(op, result, alerts, data, timestamp) ==
    [op |-> op, result |-> result, alerts |-> alerts, data |-> data, timestamp |-> timestamp]

INVInit ==
    /\ recorded_inventory = NoData
    /\ rfid_detected = FALSE
    /\ rfid_tally = [k \in Skus |-> 0]
    /\ rfid_baseline_established = FALSE
    /\ inv_last = InvLast("none", "returned", {}, NoData, NoTs)
    /\ inv_seen = 0
    /\ inv_pos = 0

\* InventoryDiscrepancyDetector.process_inventory_snapshot
INV_process_inventory_snapshot(data, timestamp) ==
    IF ~PresentTs(timestamp) \/ data = NoData \/ ~Parses(timestamp)
    THEN /\ inv_last' = InvLast("snapshot", "returned", {}, data, timestamp)
         /\ UNCHANGED <<recorded_inventory, rfid_detected, rfid_tally,
                        rfid_baseline_established, inv_seen>>
    ELSE LET r == SnapshotOutcome(rfid_baseline_established, rfid_detected, data,
                                  rfid_tally, timestamp)
         IN  /\ recorded_inventory' = data
             /\ rfid_baseline_established' = r.established
             /\ rfid_detected' = (rfid_detected \/ (r.result = "returned" /\ r.established))
             /\ inv_last' = InvLast("snapshot", r.result, r.alerts, data, timestamp)
             /\ UNCHANGED <<rfid_tally, inv_seen>>

InvRfidWellFormed(sku, epc, location, timestamp) ==
    /\ Present(sku) /\ Present(epc) /\ PresentTs(timestamp) /\ Present(location)
    /\ Parses(timestamp)

TallyAfterRead_NoFloor(tally, sku, location) ==
    IF location = "IN_SCAN_AREA" THEN [tally EXCEPT ![sku] = @ + 1]
    ELSE IF location = "OUT_SCAN_AREA" THEN [tally EXCEPT ![sku] = @ - 1]
    ELSE tally

\* lines 102-108: the tally of the SKU after a read at location
TallyAfterRead(tally, sku, location) ==
    IF location = "IN_SCAN_AREA" THEN [tally EXCEPT ![sku] = @ + 1]
    ELSE IF location = "OUT_SCAN_AREA" /\ tally[sku] > 0 THEN [tally EXCEPT ![sku] = @ - 1]
    ELSE tally

\* InventoryDiscrepancyDetector.process_rfid_event
INV_process_rfid_event(sku, epc, location, timestamp) ==
    /\ inv_last' = InvLast("rfid", "returned", {}, NoData, NoTs)
    /\ IF InvRfidWellFormed(sku, epc, location, timestamp)
       THEN /\ rfid_tally' = TallyAfterRead(rfid_tally, sku, location)
            /\ rfid_detected' = (rfid_detected \/ location \in {"IN_SCAN_AREA", "OUT_SCAN_AREA"})
            /\ inv_seen' = IF inv_seen < MinRfidEventsForBaseline THEN inv_seen + 1 ELSE inv_seen
       ELSE UNCHANGED <<rfid_tally, rfid_detected, inv_seen>>
    /\ UNCHANGED <<recorded_inventory, rfid_baseline_established>>

\* InventoryDiscrepancyDetector.process_pos_transaction
INV_process_pos_transaction(sku, timestamp) ==
    IF Present(sku) /\ PresentTs(timestamp) /\ Parses(timestamp)
       /\ recorded_inventory[sku] # NoCount
    THEN LET recorded_count == Max(0, recorded_inventory[sku] - 1)
             rfid_count == rfid_tally[sku]
         IN  /\ recorded_inventory' = [recorded_inventory EXCEPT ![sku] = recorded_count]
             /\ rfid_detected' = TRUE
             /\ inv_last' = InvLast("pos", "returned",
                    IF ReachesThreshold(recorded_count, rfid_count)
                    THEN {InventoryDiscrepancyAlert(sku, recorded_count, rfid_count, timestamp)}
                    ELSE {},
                    NoData, NoTs)
             /\ UNCHANGED <<rfid_tally, rfid_baseline_established, inv_seen>>
    ELSE /\ inv_last' = InvLast("pos", "returned", {}, NoData, NoTs)
         /\ UNCHANGED <<recorded_inventory, rfid_detected, rfid_tally,
                        rfid_baseline_established, inv_seen>>

InvSnapshotEvents ==
    [data : InvSnapshots, timestamp : {0}]
    \cup {[data |-> [k \in Skus |-> IF k = "A" THEN 10 ELSE NoCount], timestamp |-> t] :
            t \in {NoTs, BadTs}}
InvRfidEvents ==
    [sku : TrackedSkus, epc : {"E1"}, location : Locations, timestamp : {0}]
    \cup {[sku |-> None, epc |-> "E1", location |-> "IN_SCAN_AREA", timestamp |-> 0],
          [sku |-> "A", epc |-> None, location |-> "IN_SCAN_AREA", timestamp |-> 0],
          [sku |-> "A", epc |-> "E1", location |-> None, timestamp |-> 0],
          [sku |-> "A", epc |-> "E1", location |-> "IN_SCAN_AREA", timestamp |-> NoTs],
          [sku |-> "A", epc |-> "E1", location |-> "OUT_SCAN_AREA", timestamp |-> BadTs]}

(***************************************************************************)
(* WeightDiscrepancyDetector.  Weights are whole grams.  percentage_diff   *)
(* is computed as Python computes it, in IEEE-754 doubles.  A double > 0   *)
(* is a record [d, e]: e is the exponent of its leading bit and d the 52   *)
(* bits after the leading one, as four digits of 13 bits, most significant *)
(* first; zero has no digits.  The engine never calls                      *)
(* process_scale_reading, so scale_readings stays empty and a transaction  *)
(* without weight_g resolves to no weight.                                 *)
(***************************************************************************)
TolerancePercentage == 10
HighPercentage == 50
LimbBase == 8192
MaxWeight == 230

NotInCatalog == -1
NoWeight == -1

\* the number of binary digits of n
RECURSIVE BitLength(_)
BitLength(n) == IF n = 0 THEN 0 ELSE BitLength(n \div 2) + 1

\* the exponent of the leading bit of d / n, for d, n > 0
RECURSIVE ExponentOf(_, _)
ExponentOf(d, n) ==
    IF d >= 2 * n THEN ExponentOf(d, 2 * n) + 1
    ELSE IF d < n THEN ExponentOf(2 * d, n) - 1
    ELSE 0

\* the next k digits of r / n (r < n), then the remainder
RECURSIVE QuotientLimbs(_, _, _)
QuotientLimbs(r, n, k) ==
    IF k = 0 THEN <<r>>
    ELSE <<(r * LimbBase) \div n>> \o QuotientLimbs((r * LimbBase) % n, n, k - 1)

\* the digits of (1.d) * k: the whole part first, then the digits after it
RECURSIVE ProductLimbs(_, _, _, _)
ProductLimbs(d, i, k, c) ==
    IF i = 0 THEN <<k + c>>
    ELSE LET t == d[i] * k + c
         IN  Append(ProductLimbs(d, i - 1, k, t \div LimbBase), t % LimbBase)

\* round-to-nearest, ties-to-even: the double for the digits d at exponent e when
\* the first dropped bit is guard and sticky tells whether a later one is set
RoundToDouble(d, e, guard, sticky) ==
    LET last == CHOOSE i \in 0..Len(d) :
                    /\ i > 0 => d[i] < LimbBase - 1
                    /\ \A j \in (i + 1)..Len(d) : d[j] = LimbBase - 1
    IN  IF ~(guard /\ (sticky \/ d[Len(d)] % 2 = 1)) THEN [d |-> d, e |-> e]
        ELSE IF last = 0 THEN [d |-> [i \in 1..Len(d) |-> 0], e |-> e + 1]
        ELSE [d |-> [i \in 1..Len(d) |->
                        IF i < last THEN d[i] ELSE IF i = last THEN d[i] + 1 ELSE 0],
              e |-> e]

\* the double a / n, for whole a >= 0 and n > 0
FloatDiv(a, n) ==
    IF a = 0 THEN [d |-> <<>>, e |-> 0]
    ELSE LET x == ExponentOf(a, n)
             aa == IF x < 0 THEN a * (2 ^ (0 - x)) ELSE a
             nn == IF x > 0 THEN n * (2 ^ x) ELSE n
             q == QuotientLimbs(aa - nn, nn, 4)
         IN  RoundToDouble(SubSeq(q, 1, 4), x, 2 * q[5] >= nn, (2 * q[5]) % nn # 0)

\* the double f * k, for a whole k with 2 <= k < 4096
FloatTimes(f, k) ==
    IF f.d = <<>> THEN f
    ELSE LET p == ProductLimbs(f.d, 4, k, 0)
             s == BitLength(p[1]) - 1
             low == p[5] % (2 ^ s)
         IN  RoundToDouble([i \in 1..4 |-> (p[i] % (2 ^ s)) * (LimbBase \div (2 ^ s))
                                            + p[i + 1] \div (2 ^ s)],
                           f.e + s, low >= 2 ^ (s - 1), low % (2 ^ (s - 1)) # 0)

FloatExceeds_OrEquals(f, k) ==
    LET x == BitLength(k) - 1
        kd == [i \in 1..4 |-> IF i = 1 THEN (k - 2 ^ x) * (LimbBase \div (2 ^ x)) ELSE 0]
    IN  /\ f.d # <<>>
        /\ \/ f.e > x
           \/ /\ f.e = x
              /\ \/ f.d = kd
                 \/ \E i \in 1..4 : /\ f.d[i] > kd[i]
                                    /\ \A j \in 1..(i - 1) : f.d[j] = kd[j]

\* f > k in doubles, for a whole k with 0 < k < 8192
FloatExceeds(f, k) ==
    LET x == BitLength(k) - 1
        kd == [i \in 1..4 |-> IF i = 1 THEN (k - 2 ^ x) * (LimbBase \div (2 ^ x)) ELSE 0]
    IN  /\ f.d # <<>>
        /\ \/ f.e > x
           \/ /\ f.e = x
              /\ \E i \in 1..4 : /\ f.d[i] > kd[i]
                                 /\ \A j \in 1..(i - 1) : f.d[j] = kd[j]

\* lines 61-62: weight_diff = abs(actual - expected); (weight_diff / expected) * 100
PercentageDiff(actual_weight, expected_weight) ==
    FloatTimes(FloatDiv(Abs(actual_weight - expected_weight), expected_weight), 100)

WeightCatalogs ==
    {[k \in Skus |-> IF k = "A" THEN 100 ELSE 150],
     [k \in Skus |-> IF k = "A" THEN 30 ELSE 0],
     [k \in Skus |-> IF k = "A" THEN 7 ELSE NotInCatalog]}

\* _generate_weight_discrepancy_alert; percentage_difference, a rounded double, is
\* left out of the record
WeightDiscrepancyAlert(station_id, sku, expected_weight, actual_weight, percentage_diff, timestamp) ==
    [event_name |-> "Weight Discrepancies", station_id |-> station_id, product_sku |-> sku,
     expected_weight |-> expected_weight, actual_weight |-> actual_weight,
     weight_difference_g |-> Abs(actual_weight - expected_weight),
     severity |-> IF FloatExceeds(percentage_diff, HighPercentage) THEN "HIGH" ELSE "MEDIUM",
     timestamp |-> timestamp]

\* process_pos_transaction: the alert it returns (a set: empty for None)
WeightAlerts(catalog, station_id, sku, weight_g, timestamp) ==
    IF ~(Present(station_id) /\ Present(sku) /\ PresentTs(timestamp)) THEN {}
    ELSE IF catalog[sku] = NotInCatalog \/ catalog[sku] = 0 THEN {}
    ELSE IF weight_g = NoWeight THEN {}
    ELSE LET percentage_diff == PercentageDiff(weight_g, catalog[sku])
         IN  IF FloatExceeds(percentage_diff, TolerancePercentage) /\ Parses(timestamp)
             THEN {WeightDiscrepancyAlert(station_id, sku, catalog[sku], weight_g,
                                          percentage_diff, timestamp)}
             ELSE {}

WDInit ==
    /\ product_catalog = [k \in Skus |-> NotInCatalog]
    /\ wd_last = [op |-> "none", station_id |-> None, sku |-> None, weight_g |-> NoWeight,
                  timestamp |-> NoTs, expected |-> NotInCatalog, alerts |-> {}]

\* WeightDiscrepancyDetector.load_product_catalog
WD_load_product_catalog(catalog) ==
    /\ product_catalog' = catalog
    /\ wd_last' = [op |-> "load", station_id |-> None, sku |-> None, weight_g |-> NoWeight,
                   timestamp |-> NoTs, expected |-> NotInCatalog, alerts |-> {}]

\* WeightDiscrepancyDetector.process_pos_transaction
WD_process_pos_transaction(station_id, sku, weight_g, timestamp) ==
    /\ wd_last' = [op |-> "pos", station_id |-> station_id, sku |-> sku,
                   weight_g |-> weight_g, timestamp |-> timestamp,
                   expected |-> IF Present(sku) THEN product_catalog[sku] ELSE NotInCatalog,
                   alerts |-> WeightAlerts(product_catalog, station_id, sku, weight_g,
                                           timestamp)]
    /\ UNCHANGED product_catalog

WeightPosEvents ==
    [station_id : Stations, sku : Skus, weight_g : (0..MaxWeight) \cup {NoWeight},
     timestamp : {0}]
    \cup {[station_id |-> None, sku |-> "A", weight_g |-> 200, timestamp |-> 0],
          [station_id |-> "SCC1", sku |-> None, weight_g |-> 200, timestamp |-> 0],
          [station_id |-> "SCC1", sku |-> "A", weight_g |-> 200, timestamp |-> NoTs],
          [station_id |-> "SCC1", sku |-> "A", weight_g |-> 200, timestamp |-> BadTs]}

(***************************************************************************)
(* BarcodeSwitchingDetector.  Prices are whole currency units and          *)
(* accuracies are hundredths.  pos_events is written and never read by the *)
(* check, and is left out; percentage_savings and customer_id are left out *)
(* of the alert.                                                           *)
(***************************************************************************)
TimeWindow == 60
DelayAfterRecognition == 30
MinPriceDifference == 50
HighPriceDifference == 200
MinAccuracy == 60
BSRetention == 3600

\* the instants of a BarcodeSwitching run, in seconds: the first NumBSTimes of these
BSTimePoints == <<0, 15, 75, 45, 3700>>
NumBSTimes == 3
BSTimes == {BSTimePoints[i] : i \in 1..NumBSTimes}
MaxRecognitions == 2

Accuracies == {59, 60}
PriceCatalogs ==
    {[k \in Skus |-> IF k = "A" THEN 500 ELSE 100],
     [k \in Skus |-> IF k = "A" THEN 300 ELSE 100],
     [k \in Skus |-> IF k = "A" THEN 150 ELSE 100],
     [k \in Skus |-> IF k = "A" THEN 149 ELSE 100],
     [k \in Skus |-> IF k = "A" THEN 500 ELSE NotInCatalog]}

NoRecognition == [predicted_sku |-> None, accuracy |-> 0, timestamp |-> NoTs]

RelevantRecognitions_WindowSwapped(recognitions, timestamp) ==
    {i \in 1..Len(recognitions) :
        /\ timestamp - DelayAfterRecognition <= recognitions[i].timestamp
        /\ recognitions[i].timestamp <= timestamp + TimeWindow}

\* the recognitions of the station inside [timestamp - time_window, timestamp + 30 s]
RelevantRecognitions(recognitions, timestamp) ==
    {i \in 1..Len(recognitions) :
        /\ timestamp - TimeWindow <= recognitions[i].timestamp
        /\ recognitions[i].timestamp <= timestamp + DelayAfterRecognition}

\* max(relevant_recognitions, key=timestamp): the first of the latest ones
LatestRecognition(recognitions, timestamp) ==
    LET relevant == RelevantRecognitions(recognitions, timestamp)
    IN  IF relevant = {} THEN NoRecognition
        ELSE recognitions[CHOOSE i \in relevant :
                \A j \in relevant :
                    \/ recognitions[j].timestamp < recognitions[i].timestamp
                    \/ recognitions[j].timestamp = recognitions[i].timestamp /\ i <= j]

BarcodeAlertKey(station_id, predicted_sku, scanned_sku, timestamp) ==
    <<station_id, predicted_sku, scanned_sku, timestamp>>

\* _generate_barcode_switching_alert
BarcodeSwitchingAlert(station_id, predicted_sku, scanned_sku, predicted_price, scanned_price, recognition_accuracy, timestamp) ==
    [event_name |-> "Barcode Switching", station_id |-> station_id,
     actual_sku |-> predicted_sku, scanned_sku |-> scanned_sku,
     expected_price |-> predicted_price, scanned_price |-> scanned_price,
     price_difference |-> predicted_price - scanned_price,
     recognition_confidence |-> recognition_accuracy,
     severity |-> IF predicted_price - scanned_price > HighPriceDifference
                  THEN "HIGH" ELSE "MEDIUM",
     timestamp |-> timestamp]

CheckBarcodeSwitching_NoPriceFloor(catalog, recognitions, keys, station_id, scanned_sku, timestamp) ==
    LET latest == LatestRecognition(recognitions, timestamp)
        predicted_sku == latest.predicted_sku
        key == BarcodeAlertKey(station_id, predicted_sku, scanned_sku, timestamp)
    IN  IF latest = NoRecognition \/ predicted_sku = scanned_sku THEN {}
        ELSE IF catalog[predicted_sku] = NotInCatalog \/ catalog[scanned_sku] = NotInCatalog
        THEN {}
        ELSE IF key \notin keys
        THEN {BarcodeSwitchingAlert(station_id, predicted_sku, scanned_sku,
                    catalog[predicted_sku], catalog[scanned_sku], latest.accuracy, timestamp)}
        ELSE {}

\* _check_barcode_switching: the alert it returns (a set: empty for None)
CheckBarcodeSwitching(catalog, recognitions, keys, station_id, scanned_sku, timestamp) ==
    LET latest == LatestRecognition(recognitions, timestamp)
        predicted_sku == latest.predicted_sku
        key == BarcodeAlertKey(station_id, predicted_sku, scanned_sku, timestamp)
    IN  IF latest = NoRecognition \/ predicted_sku = scanned_sku THEN {}
        ELSE IF catalog[predicted_sku] = NotInCatalog \/ catalog[scanned_sku] = NotInCatalog
        THEN {}
        ELSE IF /\ catalog[predicted_sku] - catalog[scanned_sku] >= MinPriceDifference
                /\ key \notin keys
        THEN {BarcodeSwitchingAlert(station_id, predicted_sku, scanned_sku,
                    catalog[predicted_sku], catalog[scanned_sku], latest.accuracy, timestamp)}
        ELSE {}

BsLast(op, station_id, sku, timestamp, alerts, latest, fresh) ==
    [op |-> op, station_id |-> station_id, sku |-> sku, timestamp |-> timestamp,
     alerts |-> alerts, latest |-> latest, fresh |-> fresh]

BSInit ==
    /\ price_catalog = [k \in Skus |-> NotInCatalog]
    /\ recognition_events = [st \in Stations |-> <<>>]
    /\ bs_alerts_generated = {}
    /\ bs_last = BsLast("none", None, None, NoTs, {}, NoRecognition, FALSE)

\* BarcodeSwitchingDetector.load_product_catalog
BS_load_product_catalog(catalog) ==
    /\ price_catalog' = catalog
    /\ bs_last' = BsLast("load", None, None, NoTs, {}, NoRecognition, FALSE)
    /\ UNCHANGED <<recognition_events, bs_alerts_generated>>

\* BarcodeSwitchingDetector.process_product_recognition
BS_process_product_recognition(station_id, predicted_product, accuracy, timestamp) ==
    /\ bs_last' = BsLast("recognition", None, None, NoTs, {}, NoRecognition, FALSE)
    /\ IF /\ Present(station_id) /\ Present(predicted_product) /\ PresentTs(timestamp)
          /\ Parses(timestamp)
          /\ accuracy >= MinAccuracy
       THEN recognition_events' = [recognition_events EXCEPT ![station_id] =
                SelectSeq(Append(@, [predicted_sku |-> predicted_product,
                                     accuracy |-> accuracy, timestamp |-> timestamp]),
                          LAMBDA r : r.timestamp >= timestamp - BSRetention)]
       ELSE UNCHANGED recognition_events
    /\ UNCHANGED <<price_catalog, bs_alerts_generated>>

\* BarcodeSwitchingDetector.process_pos_transaction
BS_process_pos_transaction(station_id, scanned_sku, timestamp) ==
    IF ~(Present(station_id) /\ Present(scanned_sku) /\ PresentTs(timestamp)
         /\ Parses(timestamp))
    THEN /\ bs_last' = BsLast("pos", station_id, scanned_sku, timestamp, {},
                              NoRecognition, FALSE)
         /\ UNCHANGED <<price_catalog, recognition_events, bs_alerts_generated>>
    ELSE LET alerts == CheckBarcodeSwitching(price_catalog, recognition_events[station_id],
                            bs_alerts_generated, station_id, scanned_sku, timestamp)
             latest == LatestRecognition(recognition_events[station_id], timestamp)
             key == BarcodeAlertKey(station_id, latest.predicted_sku, scanned_sku, timestamp)
         IN  /\ bs_alerts_generated' = IF alerts # {} THEN bs_alerts_generated \cup {key}
                                       ELSE bs_alerts_generated
             /\ bs_last' = BsLast("pos", station_id, scanned_sku, timestamp, alerts, latest,
                                  key \notin bs_alerts_generated)
             /\ UNCHANGED <<price_catalog, recognition_events>>

RecognitionEvents ==
    [station_id : Stations, predicted_product : Skus, accuracy : Accuracies,
     timestamp : BSTimes]
    \cup {[station_id |-> None, predicted_product |-> "A", accuracy |-> 60, timestamp |-> 0],
          [station_id |-> "SCC1", predicted_product |-> None, accuracy |-> 60, timestamp |-> 0],
          [station_id |-> "SCC1", predicted_product |-> "A", accuracy |-> 60, timestamp |-> NoTs],
          [station_id |-> "SCC1", predicted_product |-> "A", accuracy |-> 60, timestamp |-> BadTs]}

BarcodePosEvents ==
    [station_id : Stations, sku : Skus, timestamp : BSTimes]
    \cup {[station_id |-> None, sku |-> "B", timestamp |-> 0],
          [station_id |-> "SCC1", sku |-> None, timestamp |-> 0],
          [station_id |-> "SCC1", sku |-> "B", timestamp |-> NoTs],
          [station_id |-> "SCC1", sku |-> "B", timestamp |-> BadTs]}

(***************************************************************************)
(* QueueMonitor.  Dwell times are whole seconds.  A stored snapshot keeps  *)
(* its timestamp and customer_count, the two fields the checks read back;  *)
(* customer_sessions is only touched by the session calls, which the       *)
(* engine never makes.                                                     *)
(***************************************************************************)
LongQueueThreshold == 5
LongWaitThreshold == 300
HighWait == 600
StaffingCount == 4
StaffingDwell == 180
QueueRetention == 7200
TrendWindow == 5
TrendMinimum == 3

MaxQueueSamples == 4
NoDwell == NoCount
QMTimes == {0, 7201}
CustomerCounts == {3, 5, 6, 10}
DwellTimes == {0, 180, 250, 299, 300, 600, 601}

\* QueueMonitor._generate_long_queue_alert
LongQueueAlert(station_id, customer_count, timestamp) ==
    [event_name |-> "Long Queue Length", station_id |-> station_id,
     num_of_customers |-> customer_count,
     severity |-> IF customer_count >= LongQueueThreshold * 2 THEN "HIGH" ELSE "MEDIUM",
     timestamp |-> timestamp]

\* QueueMonitor._generate_long_wait_alert
LongWaitAlert(station_id, wait_time_seconds, customer_count, timestamp) ==
    [event_name |-> "Long Wait Time", station_id |-> station_id,
     wait_time_seconds |-> wait_time_seconds, num_customers_waiting |-> customer_count,
     severity |-> IF wait_time_seconds > HighWait THEN "HIGH" ELSE "MEDIUM",
     timestamp |-> timestamp]

\* QueueMonitor._check_staffing_needs: the comparison of a missing dwell time raises
StaffingRaises(customer_count, avg_dwell_time) ==
    customer_count >= StaffingCount /\ avg_dwell_time = NoDwell

StaffingAlerts(station_id, customer_count, avg_dwell_time, timestamp) ==
    IF customer_count >= StaffingCount /\ avg_dwell_time >= StaffingDwell
    THEN <<[event_name |-> "Staffing Needs", station_id |-> station_id,
            Staff_type |-> "Cashier", customer_count |-> customer_count,
            avg_dwell_time |-> avg_dwell_time, timestamp |-> timestamp]>>
    ELSE <<>>

RECURSIVE SumCounts(_)
SumCounts(samples) ==
    IF samples = <<>> THEN 0 ELSE Head(samples).customer_count + SumCounts(Tail(samples))

\* round(x, 1) of the quotient total / n, in tenths: ties go to the even tenth
RoundTenths(total, n) ==
    LET q == (10 * total) \div n
        r == (10 * total) % n
    IN  IF 2 * r > n \/ (2 * r = n /\ q % 2 = 1) THEN q + 1 ELSE q

\* QueueMonitor._check_station_action_needed
StationActionAlerts(history, station_id, timestamp) ==
    LET first == IF Len(history) > TrendWindow THEN Len(history) - TrendWindow + 1 ELSE 1
        recent == SubSeq(history, first, Len(history))
    IN  IF Len(recent) >= TrendMinimum /\ SumCounts(recent) >= LongQueueThreshold * Len(recent)
        THEN <<[event_name |-> "Checkout Station Action", station_id |-> station_id,
                Action |-> "Open",
                avg_customer_count_tenths |-> RoundTenths(SumCounts(recent), Len(recent)),
                timestamp |-> timestamp]>>
        ELSE <<>>

\* QueueMonitor.process_queue_event, lines 48-61: append, then keep the last two hours
HistoryAfter(history, customer_count, timestamp) ==
    SelectSeq(Append(history, [timestamp |-> timestamp, customer_count |-> customer_count]),
              LAMBDA d : d.timestamp >= timestamp - QueueRetention)

QueueEventWellFormed(station_id, customer_count, timestamp) ==
    Present(station_id) /\ PresentTs(timestamp) /\ customer_count # NoCount /\ Parses(timestamp)

\* QueueMonitor.process_queue_event, lines 63-87: the alerts, in the order they are appended
QueueAlerts_StrictQueue(history, station_id, customer_count, avg_dwell_time, timestamp) ==
       (IF customer_count > LongQueueThreshold
        THEN <<LongQueueAlert(station_id, customer_count, timestamp)>> ELSE <<>>)
    \o (IF avg_dwell_time # NoDwell /\ avg_dwell_time # 0 /\ avg_dwell_time >= LongWaitThreshold
        THEN <<LongWaitAlert(station_id, avg_dwell_time, customer_count, timestamp)>>
        ELSE <<>>)
    \o StaffingAlerts(station_id, customer_count, avg_dwell_time, timestamp)
    \o StationActionAlerts(history, station_id, timestamp)

QueueAlerts(history, station_id, customer_count, avg_dwell_time, timestamp) ==
       (IF customer_count >= LongQueueThreshold
        THEN <<LongQueueAlert(station_id, customer_count, timestamp)>> ELSE <<>>)
    \o (IF avg_dwell_time # NoDwell /\ avg_dwell_time # 0 /\ avg_dwell_time >= LongWaitThreshold
        THEN <<LongWaitAlert(station_id, avg_dwell_time, customer_count, timestamp)>>
        ELSE <<>>)
    \o StaffingAlerts(station_id, customer_count, avg_dwell_time, timestamp)
    \o StationActionAlerts(history, station_id, timestamp)

QmLast(op, station_id, customer_count, avg_dwell_time, timestamp, result, alerts) ==
    [op |-> op, station_id |-> station_id, customer_count |-> customer_count,
     average_dwell_time |-> avg_dwell_time, timestamp |-> timestamp, result |-> result,
     alerts |-> alerts]

QMInit ==
    /\ queue_history = [st \in Stations |-> <<>>]
    /\ qm_last = QmLast("none", None, NoCount, NoDwell, NoTs, "none", <<>>)

\* QueueMonitor.process_queue_event
QM_process_queue_event(station_id, customer_count, avg_dwell_time, timestamp) ==
    IF ~QueueEventWellFormed(station_id, customer_count, timestamp)
    THEN /\ qm_last' = QmLast("queue", station_id, customer_count, avg_dwell_time, timestamp,
                              "dropped", <<>>)
         /\ UNCHANGED queue_history
    ELSE LET history == HistoryAfter(queue_history[station_id], customer_count, timestamp)
         IN  /\ queue_history' = [queue_history EXCEPT ![station_id] = history]
             /\ qm_last' =
                    IF StaffingRaises(customer_count, avg_dwell_time)
                    THEN QmLast("queue", station_id, customer_count, avg_dwell_time,
                                timestamp, "TypeError", <<>>)
                    ELSE QmLast("queue", station_id, customer_count, avg_dwell_time,
                                timestamp, "returned",
                                QueueAlerts(history, station_id, customer_count,
                                            avg_dwell_time, timestamp))

QueueEvents ==
    [station_id : Stations, customer_count : CustomerCounts,
     average_dwell_time : DwellTimes \cup {NoDwell}, timestamp : QMTimes]
    \cup {[station_id |-> None, customer_count |-> 6, average_dwell_time |-> 300, timestamp |-> 0],
          [station_id |-> "SCC1", customer_count |-> NoCount, average_dwell_time |-> 300, timestamp |-> 0],
          [station_id |-> "SCC1", customer_count |-> 6, average_dwell_time |-> 300, timestamp |-> NoTs],
          [station_id |-> "SCC1", customer_count |-> 6, average_dwell_time |-> 300, timestamp |-> BadTs]}

(***************************************************************************)
(* SuccessOperationDetector.  An event comes flat, or wrapped under an     *)
(* "event" key; data.customer_id and data.sku are written customer_id and  *)
(* sku.  A missing status reads as the empty string.                       *)
(***************************************************************************)
SORetention == 3600
MaxTransactions == 3
MaxSOCalls == 4
SOTimes == {0, 3601}
SOStatuses == {"Active", "Inactive", None}
Customers == {"C1"}

\* event_data.get("status", "")
StatusOf(status) == IF status = None THEN "" ELSE status

\* SuccessOperationDetector.process_pos_transaction, lines 41-59: the early returns
SuccessEligible_AnyStatus(station_id, timestamp, status, customer_id, sku) ==
    IF ~(Present(station_id) /\ PresentTs(timestamp)) THEN FALSE
    ELSE IF ~Parses(timestamp) THEN FALSE
    ELSE Present(customer_id) /\ Present(sku)

SuccessEligible(station_id, timestamp, status, customer_id, sku) ==
    IF ~(Present(station_id) /\ PresentTs(timestamp)) THEN FALSE
    ELSE IF StatusOf(status) # "Active" THEN FALSE
    ELSE IF ~Parses(timestamp) THEN FALSE
    ELSE Present(customer_id) /\ Present(sku)

\* SuccessOperationDetector._generate_success_operation_alert
SuccessOperationAlert(station_id, customer_id, product_sku, timestamp) ==
    [event_name |-> "Success Operation", station_id |-> station_id,
     customer_id |-> customer_id, product_sku |-> product_sku, timestamp |-> timestamp]

\* lines 68-80: append, then keep the last hour
LedgerAfter(ledger, station_id, customer_id, sku, timestamp) ==
    SelectSeq(Append(ledger, [station_id |-> station_id, customer_id |-> customer_id,
                              sku |-> sku, timestamp |-> timestamp]),
              LAMBDA tx : tx.timestamp >= timestamp - SORetention)

SoLast(op, e, alerts, ledger_before) ==
    [op |-> op, event |-> e, alerts |-> alerts, ledger_before |-> ledger_before]

FlatPosEvents ==
    [station_id : Stations, timestamp : SOTimes, status : SOStatuses,
     customer_id : Customers, sku : Skus]
    \cup {[station_id |-> None, timestamp |-> 0, status |-> "Active",
           customer_id |-> "C1", sku |-> "A"],
          [station_id |-> "SCC1", timestamp |-> NoTs, status |-> "Active",
           customer_id |-> "C1", sku |-> "A"],
          [station_id |-> "SCC1", timestamp |-> BadTs, status |-> "Active",
           customer_id |-> "C1", sku |-> "A"],
          [station_id |-> "SCC1", timestamp |-> 0, status |-> "Active",
           customer_id |-> None, sku |-> "A"],
          [station_id |-> "SCC1", timestamp |-> 0, status |-> "Active",
           customer_id |-> "C1", sku |-> None]}

SuccessPosEvents == FlatPosEvents \cup {[event |-> f] : f \in FlatPosEvents}

\* lines 27-39: the fields are read under the "event" key when the event has one
EventData(e) == IF "event" \in DOMAIN e THEN e.event ELSE e

NoEvent ==
    [station_id |-> None, timestamp |-> NoTs, status |-> None,
     customer_id |-> None, sku |-> None]

SOInit ==
    /\ successful_transactions = <<>>
    /\ last_success_per_station = [st \in Stations |-> NoTs]
    /\ so_last = SoLast("none", NoEvent, <<>>, <<>>)
    /\ so_eligible = 0
    /\ so_alerts = 0

\* history: the event has a station_id, a parseable timestamp, status "Active", a
\* customer_id and a sku
FedEligible(e) ==
    /\ EventData(e).station_id # None
    /\ EventData(e).timestamp >= 0
    /\ EventData(e).status = "Active"
    /\ EventData(e).customer_id # None
    /\ EventData(e).sku # None

\* SuccessOperationDetector.process_pos_transaction
SO_process_pos_transaction(e) ==
    LET d == EventData(e)
        eligible == SuccessEligible(d.station_id, d.timestamp, d.status, d.customer_id, d.sku)
        alerts == IF eligible
                  THEN <<SuccessOperationAlert(d.station_id, d.customer_id, d.sku, d.timestamp)>>
                  ELSE <<>>
    IN  /\ IF eligible
           THEN /\ successful_transactions' =
                        LedgerAfter(successful_transactions, d.station_id, d.customer_id,
                                    d.sku, d.timestamp)
                /\ last_success_per_station' =
                        [last_success_per_station EXCEPT ![d.station_id] = d.timestamp]
           ELSE UNCHANGED <<successful_transactions, last_success_per_station>>
        /\ so_last' = SoLast("pos", e, alerts, successful_transactions)
        /\ so_alerts' = so_alerts + Len(alerts)
        /\ so_eligible' = so_eligible + (IF FedEligible(e) THEN 1 ELSE 0)

(***************************************************************************)
(* Event shapes.  An event arrives flat (station_id, timestamp, status and *)
(* the data fields inlined) or wrapped (the same fields under an "event"   *)
(* key).  SystemCrashDetector reads event.get("event", {}) only;           *)
(* SuccessOperationDetector reads either shape (EventData).  The twin of   *)
(* an event is the same event in the other shape.                          *)
(***************************************************************************)
Wrapped(f) == [event |-> f]
Twin(e) == IF "event" \in DOMAIN e THEN e.event ELSE Wrapped(e)
BothShapes(f) == {f, Wrapped(f)}

\* system_crash.py:31-34: event.get("event", {}) and the three .get calls on it
NoStationFields == [station_id |-> None, status |-> None, timestamp |-> NoTs]
StationFields(e) == IF "event" \in DOMAIN e THEN e.event ELSE NoStationFields

\* SystemCrashDetector.process_station_event as a function of the detector's state
StationOutcome(last_activity, statuses, crashes, periods, d) ==
    IF ~StationEventWellFormed(d.station_id, d.timestamp)
    THEN [alerts |-> {}, state |-> <<last_activity, statuses, crashes, periods>>]
    ELSE LET r == StationStatusBranch(crashes, periods, statuses[d.station_id],
                                      d.station_id, d.status, d.timestamp)
         IN  [alerts |-> r.alerts,
              state |-> <<[last_activity EXCEPT ![d.station_id] = d.timestamp],
                          [statuses EXCEPT ![d.station_id] =
                                IF Present(d.status) THEN d.status ELSE @],
                          r.crashes, r.periods>>]

\* SuccessOperationDetector.process_pos_transaction as a function of the detector's state
SuccessOutcome(ledger, last_success, e) ==
    LET d == EventData(e)
    IN  IF SuccessEligible(d.station_id, d.timestamp, d.status, d.customer_id, d.sku)
        THEN [alerts |-> <<SuccessOperationAlert(d.station_id, d.customer_id, d.sku,
                                                 d.timestamp)>>,
              state |-> <<LedgerAfter(ledger, d.station_id, d.customer_id, d.sku, d.timestamp),
                          [last_success EXCEPT ![d.station_id] = d.timestamp]>>]
        ELSE [alerts |-> <<>>, state |-> <<ledger, last_success>>]

ShLast(detector, e, alerts, state, twin) ==
    [detector |-> detector, event |-> e, alerts |-> alerts, state |-> state, twin |-> twin]

SHInit ==
    sh_last = ShLast("none", NoStationFields, {}, <<>>, [alerts |-> {}, state |-> <<>>])

\* a shaped event handed to SystemCrashDetector.process_station_event
SH_process_station_event(e) ==
    /\ SC_process_station_event(StationFields(e).station_id, StationFields(e).status,
                                StationFields(e).timestamp)
    /\ sh_last' = ShLast("SystemCrash", e, sc_last'.alerts,
                         <<station_last_activity', station_status', active_crashes',
                           crash_periods'>>,
                         StationOutcome(station_last_activity, station_status, active_crashes,
                                        crash_periods, StationFields(Twin(e))))

\* a shaped event handed to SuccessOperationDetector.process_pos_transaction
SH_process_pos_transaction(e) ==
    /\ SO_process_pos_transaction(e)
    /\ sh_last' = ShLast("SuccessOperation", e, so_last'.alerts,
                         <<successful_transactions', last_success_per_station'>>,
                         SuccessOutcome(successful_transactions, last_success_per_station,
                                        Twin(e)))

(***************************************************************************)
(* DetectionEngine: the sink (_add_alert, the pull API, the exports) and   *)
(* its three threads, the stream worker that dispatches events and the two *)
(* periodic workers.  Here a dispatch or a sweep yields at most one alert, *)
(* named by a number; _add_alert is followed statement by statement, and   *)
(* the calls made by the thread that owns the engine are single steps.     *)
(***************************************************************************)
MaxAlerts == 2
MaxDispatches == 2
NoAlert == 0
Threads == {"ingest", "timeout", "cleanup"}
Workers == {"timeout", "cleanup"}
PullSizes == {0, 1, 2}

\* where a thread goes once its _add_alert calls are done
Home(t) == IF t = "ingest" THEN "read" ELSE "loop"

\* DetectionEngine._save_events_to_file, called for `alert`: the file afterwards, and
\* whether the call raises
SaveEventsToFile_Uncaught(file, saved, alert, outcome) ==
    [file |-> IF outcome = "ok" THEN [state |-> "written", content |-> saved, last |-> alert]
              ELSE IF outcome = "write_failed"
              THEN [state |-> "torn", content |-> <<>>, last |-> alert]
              ELSE [state |-> "stale", content |-> file.content, last |-> alert],
     raised |-> outcome # "ok"]

SaveEventsToFile(file, saved, alert, outcome) ==
    [file |-> IF outcome = "ok" THEN [state |-> "written", content |-> saved, last |-> alert]
              ELSE IF outcome = "write_failed"
              THEN [state |-> "torn", content |-> <<>>, last |-> alert]
              ELSE [state |-> "stale", content |-> file.content, last |-> alert],
     raised |-> FALSE]

SaveOutcomes == {"ok", "open_failed", "write_failed"}

\* DetectionEngine.get_alerts: the while loop
RECURSIVE GetAlerts_OneMore(_, _, _, _)
GetAlerts_OneMore(queue, alerts, count, max_alerts) ==
    IF queue # <<>> /\ count <= max_alerts
    THEN GetAlerts_OneMore(Tail(queue), Append(alerts, Head(queue)), count + 1, max_alerts)
    ELSE [alerts |-> alerts, queue |-> queue]

RECURSIVE GetAlerts(_, _, _, _)
GetAlerts(queue, alerts, count, max_alerts) ==
    IF queue # <<>> /\ count < max_alerts
    THEN GetAlerts(Tail(queue), Append(alerts, Head(queue)), count + 1, max_alerts)
    ELSE [alerts |-> alerts, queue |-> queue]

\* DetectionEngine.get_all_alerts: the while loop
RECURSIVE GetAllAlerts(_, _)
GetAllAlerts(queue, alerts) ==
    IF queue # <<>>
    THEN GetAllAlerts(Tail(queue), Append(alerts, Head(queue)))
    ELSE [alerts |-> alerts, queue |-> queue]

\* the worker loops: where a tick that raised, or one that did not, leaves the worker
AfterTick_Uncaught(raised) == IF raised THEN "done" ELSE "loop"

AfterTick(raised) == "loop"

NoFile == [state |-> "absent", content |-> <<>>, last |-> NoAlert]

\* what a call on the engine's API saw and left behind
EngLast(op, n, returned, queue_after) ==
    [op |-> op, n |-> n, returned |-> returned,
     queue_before |-> alert_queue, queue_after |-> queue_after,
     saved_before |-> saved_events, saved_after |-> saved_events',
     counter_before |-> alerts_generated, counter_after |-> alerts_generated',
     puts |-> Len(put_log), pulls |-> Len(pulled)]

NoCall ==
    [op |-> "none", n |-> 0, returned |-> <<>>, queue_before |-> <<>>, queue_after |-> <<>>,
     saved_before |-> <<>>, saved_after |-> <<>>, counter_before |-> 0, counter_after |-> 0,
     puts |-> 0, pulls |-> 0]

ENGInit ==
    /\ running = FALSE
    /\ stream_running = FALSE
    /\ started = FALSE
    /\ alert_queue = <<>>
    /\ saved_events = <<>>
    /\ alerts_generated = 0
    /\ events_processed = 0
    /\ events_file = NoFile
    /\ export_file = NoFile
    /\ pc = [t \in Threads |-> "unborn"]
    /\ cur = [t \in Threads |-> NoAlert]
    /\ tmp = [t \in Threads |-> 0]
    /\ tick_state = [w \in Workers |-> "never_failed"]
    /\ put_log = <<>>
    /\ pulled = <<>>
    /\ escaped = FALSE
    /\ late = {}
    /\ queued_at_stop = <<>>
    /\ eng_last = NoCall

sinkState == <<alert_queue, saved_events, alerts_generated, events_file, put_log, escaped>>
threadState == <<pc, cur, tmp, tick_state>>

\* DetectionEngine.start
ENG_start ==
    /\ ~started
    /\ running' = TRUE
    /\ stream_running' = TRUE
    /\ started' = TRUE
    /\ pc' = [t \in Threads |-> Home(t)]
    /\ UNCHANGED <<sinkState, events_processed, export_file, cur, tmp, tick_state, pulled,
                   late, queued_at_stop, eng_last>>

\* DetectionEngine.stop
ENG_stop ==
    /\ running' = FALSE
    /\ stream_running' = FALSE
    /\ queued_at_stop' = put_log
    /\ UNCHANGED <<sinkState, threadState, started, events_processed, export_file, pulled,
                   late, eng_last>>

\* StreamingDataClient._stream_worker: the next line of the stream, lines 65-67
ENG_stream_read ==
    /\ pc["ingest"] = "read"
    /\ pc' = [pc EXCEPT !["ingest"] = IF stream_running THEN "dispatch" ELSE "done"]
    /\ UNCHANGED <<sinkState, running, stream_running, started, events_processed, export_file,
                   cur, tmp, tick_state, pulled, late, queued_at_stop, eng_last>>

\* DetectionEngine._process_*_event: the handler up to its first _add_alert
ENG_dispatch(alert) ==
    /\ pc["ingest"] = "dispatch"
    /\ events_processed' = events_processed + 1
    /\ cur' = [cur EXCEPT !["ingest"] = alert]
    /\ pc' = [pc EXCEPT !["ingest"] = IF alert = NoAlert THEN "read" ELSE "put"]
    /\ late' = IF running THEN late ELSE late \cup {"ingest"}
    /\ UNCHANGED <<sinkState, running, stream_running, started, export_file, tmp, tick_state, pulled, queued_at_stop, eng_last>>

\* the head of a worker loop: while self.running
ENG_worker_loop(w) ==
    /\ pc[w] = "loop"
    /\ pc' = [pc EXCEPT ![w] = IF running THEN "sleep" ELSE "done"]
    /\ UNCHANGED <<sinkState, running, stream_running, started, events_processed, export_file,
                   cur, tmp, tick_state, pulled, late, queued_at_stop, eng_last>>

\* a worker's time.sleep returns: its tick begins
ENG_worker_wake(w) ==
    /\ pc[w] = "sleep"
    /\ pc' = [pc EXCEPT ![w] = "tick"]
    /\ tick_state' = [tick_state EXCEPT ![w] = IF @ = "failed" THEN "ticked_again" ELSE @]
    /\ late' = IF running THEN late ELSE late \cup {w}
    /\ UNCHANGED <<sinkState, running, stream_running, started, events_processed, export_file,
                   cur, tmp, pulled, queued_at_stop, eng_last>>

\* DetectionEngine._timeout_worker: the two sweeps of one tick, up to the first _add_alert
ENG_timeout_tick(raised, alert) ==
    /\ pc["timeout"] = "tick"
    /\ tick_state' = [tick_state EXCEPT !["timeout"] = IF raised THEN "failed" ELSE @]
    /\ cur' = [cur EXCEPT !["timeout"] = IF raised THEN NoAlert ELSE alert]
    /\ pc' = [pc EXCEPT !["timeout"] =
                IF ~raised /\ alert # NoAlert THEN "put" ELSE AfterTick(raised)]
    /\ UNCHANGED <<sinkState, running, stream_running, started, events_processed, export_file,
                   tmp, pulled, late, queued_at_stop, eng_last>>

\* DetectionEngine._cleanup_worker: the cleanup calls of one tick
ENG_cleanup_tick(raised) ==
    /\ pc["cleanup"] = "tick"
    /\ tick_state' = [tick_state EXCEPT !["cleanup"] = IF raised THEN "failed" ELSE @]
    /\ pc' = [pc EXCEPT !["cleanup"] = AfterTick(raised)]
    /\ UNCHANGED <<sinkState, running, stream_running, started, events_processed, export_file,
                   cur, tmp, pulled, late, queued_at_stop, eng_last>>

\* DetectionEngine._add_alert, line 305: self.alert_queue.put(alert)
ENG_add_put(t) ==
    /\ pc[t] = "put"
    /\ alert_queue' = Append(alert_queue, cur[t])
    /\ put_log' = Append(put_log, cur[t])
    /\ pc' = [pc EXCEPT ![t] = "read_counter"]
    /\ UNCHANGED <<saved_events, alerts_generated, events_file, escaped, running,
                   stream_running, started, events_processed, export_file, cur, tmp, tick_state, pulled, late, queued_at_stop, eng_last>>

\* line 306, self.stats["alerts_generated"] += 1: the read
ENG_add_read(t) ==
    /\ pc[t] = "read_counter"
    /\ tmp' = [tmp EXCEPT ![t] = alerts_generated]
    /\ pc' = [pc EXCEPT ![t] = "write_counter"]
    /\ UNCHANGED <<sinkState, running, stream_running, started, events_processed, export_file,
                   cur, tick_state, pulled, late, queued_at_stop, eng_last>>

\* line 306: the write
ENG_add_write(t) ==
    /\ pc[t] = "write_counter"
    /\ alerts_generated' = tmp[t] + 1
    /\ pc' = [pc EXCEPT ![t] = "append"]
    /\ UNCHANGED <<alert_queue, saved_events, events_file, put_log, escaped,
                   running, stream_running, started, events_processed, export_file, cur, tmp,
                   tick_state, pulled, late, queued_at_stop, eng_last>>

\* line 307: self.saved_events.append(alert)
ENG_add_append(t) ==
    /\ pc[t] = "append"
    /\ saved_events' = Append(saved_events, cur[t])
    /\ pc' = [pc EXCEPT ![t] = "save"]
    /\ UNCHANGED <<alert_queue, alerts_generated, events_file, put_log, escaped,
                   running, stream_running, started, events_processed, export_file, cur, tmp,
                   tick_state, pulled, late, queued_at_stop, eng_last>>

\* line 310: self._save_events_to_file(), then the call returns
ENG_add_save(t, outcome) ==
    /\ pc[t] = "save"
    /\ LET r == SaveEventsToFile(events_file, saved_events, cur[t], outcome)
       IN  /\ events_file' = r.file
           /\ escaped' = (escaped \/ r.raised)
    /\ cur' = [cur EXCEPT ![t] = NoAlert]
    /\ pc' = [pc EXCEPT ![t] = Home(t)]
    /\ UNCHANGED <<alert_queue, saved_events, alerts_generated, put_log, running,
                   stream_running, started, events_processed, export_file, tmp, tick_state, pulled, late, queued_at_stop, eng_last>>

\* DetectionEngine.get_alerts
ENG_get_alerts(max_alerts) ==
    LET r == GetAlerts(alert_queue, <<>>, 0, max_alerts)
    IN  /\ alert_queue' = r.queue
        /\ pulled' = pulled \o r.alerts
        /\ UNCHANGED <<saved_events, alerts_generated, events_file, put_log,
                       escaped, threadState, running, stream_running, started,
                       events_processed, export_file, late, queued_at_stop>>
        /\ eng_last' = EngLast("get_alerts", max_alerts, r.alerts, r.queue)

\* DetectionEngine.get_all_alerts
ENG_get_all_alerts ==
    LET r == GetAllAlerts(alert_queue, <<>>)
    IN  /\ alert_queue' = r.queue
        /\ pulled' = pulled \o r.alerts
        /\ UNCHANGED <<saved_events, alerts_generated, events_file, put_log,
                       escaped, threadState, running, stream_running, started,
                       events_processed, export_file, late, queued_at_stop>>
        /\ eng_last' = EngLast("get_all_alerts", 0, r.alerts, r.queue)

\* DetectionEngine.get_system_status: the pending_alerts entry
ENG_get_system_status ==
    /\ UNCHANGED <<sinkState, threadState, running, stream_running, started, events_processed,
                   export_file, pulled, late, queued_at_stop>>
    /\ eng_last' = EngLast("get_system_status", Len(alert_queue), <<>>, alert_queue)

\* DetectionEngine.export_events_jsonl
ENG_export_events_jsonl ==
    LET r == GetAllAlerts(alert_queue, <<>>)
    IN  /\ alert_queue' = r.queue
        /\ pulled' = pulled \o r.alerts
        /\ export_file' = [state |-> "written", content |-> r.alerts, last |-> NoAlert]
        /\ UNCHANGED <<saved_events, alerts_generated, events_file, put_log,
                       escaped, threadState, running, stream_running, started,
                       events_processed, late, queued_at_stop>>
        /\ eng_last' = EngLast("export_events_jsonl", 0, r.alerts, r.queue)

\* ProjectSentinelRunner.generate_output: get_all_alerts, then the export when it got any
ENG_generate_output ==
    LET r == GetAllAlerts(alert_queue, <<>>)
        again == GetAllAlerts(r.queue, <<>>)
    IN  /\ alert_queue' = IF r.alerts = <<>> THEN r.queue ELSE again.queue
        /\ pulled' = IF r.alerts = <<>> THEN pulled ELSE (pulled \o r.alerts) \o again.alerts
        /\ export_file' = [state |-> "written",
                           content |-> IF r.alerts = <<>> THEN <<>> ELSE again.alerts,
                           last |-> NoAlert]
        /\ UNCHANGED <<saved_events, alerts_generated, events_file, put_log,
                       escaped, threadState, running, stream_running, started,
                       events_processed, late, queued_at_stop>>
        /\ eng_last' = EngLast("generate_output", 0, r.alerts, alert_queue')

(***************************************************************************)
(* DetectionEngine._process_queue_event: one try block around the counter, *)
(* the queue monitor and the crash detector.  The correlator, which keeps  *)
(* a copy of the event, is left out; the alerts handed to _add_alert are   *)
(* recorded per detector.                                                  *)
(***************************************************************************)
MaxQueueDispatches == 3
QueueSubscribers == {"queue_monitor", "crash_detector"}

\* the detectors _process_queue_event calls when the queue monitor raises, or does not
InvokedOnQueueEvent(raised) == IF raised THEN {"queue_monitor"} ELSE QueueSubscribers

DispatchQueueEvents ==
    [station_id : Stations, status : {"Active", "Error"}, customer_count : {6},
     average_dwell_time : {250, NoDwell}, timestamp : SCTimes]
    \cup {[station_id |-> None, status |-> "Error", customer_count |-> 6,
           average_dwell_time |-> NoDwell, timestamp |-> 0]}

NoQueueEvent ==
    [station_id |-> None, status |-> None, customer_count |-> NoCount,
     average_dwell_time |-> NoDwell, timestamp |-> NoTs]

DqLast(e, raised, invoked, due, queue_alerts, crash_alerts) ==
    [event |-> e, raised |-> raised, invoked |-> invoked, due |-> due,
     sunk |-> [queue |-> queue_alerts, crash |-> crash_alerts]]

DQInit == dq_last = DqLast(NoQueueEvent, "none", {}, {}, <<>>, {})

\* DetectionEngine._process_queue_event
ENG_process_queue_event(e) ==
    LET raised == /\ QueueEventWellFormed(e.station_id, e.customer_count, e.timestamp)
                  /\ StaffingRaises(e.customer_count, e.average_dwell_time)
        invoked == InvokedOnQueueEvent(raised)
        due == StationOutcome(station_last_activity, station_status, active_crashes,
                              crash_periods, e).alerts
    IN  /\ events_processed' = events_processed + 1
        /\ QM_process_queue_event(e.station_id, e.customer_count, e.average_dwell_time,
                                  e.timestamp)
        /\ IF "crash_detector" \in invoked
           THEN /\ SC_process_station_event(e.station_id, e.status, e.timestamp)
                /\ dq_last' = DqLast(e, IF raised THEN "queue_monitor" ELSE "none", invoked, due,
                                     IF raised THEN <<>> ELSE qm_last'.alerts, sc_last'.alerts)
           ELSE /\ UNCHANGED <<station_last_activity, station_status, active_crashes,
                               crash_periods, sc_last, sc_prev, sc_open>>
                /\ dq_last' = DqLast(e, "queue_monitor", invoked, due, <<>>, {})

(***************************************************************************)
(* ScanAvoidanceDetector under its three callers: the stream worker's      *)
(* process_rfid_event, the timeout worker's check_timeout_alerts and the   *)
(* cleanup worker's cleanup_old_data, none of which takes a lock.  The     *)
(* sweep walks self.rfid_items_in_area.items() itself; a dict iterator     *)
(* raises RuntimeError at its next step when the dict has changed size.    *)
(* A station's inner loop (over a list copy) is one step, and so is one    *)
(* station of the cleanup.                                                 *)
(***************************************************************************)
MaxSweepReads == 2
MaxCleanups == 2
SweepClock == {100, 7300}
CleanupRetention == 7200
SweepTasks == {"timeout", "cleanup"}

NoIterator == [size |-> 0, todo |-> {}, current_time |-> NoTs, alerts |-> {}]
NoCleanup == [todo |-> {}, cutoff |-> NoTs, runs |-> 0]

\* next() on the iterator of rfid_items_in_area.items(): raises when the dict changed size
IteratorRaises(iter, station_keys) == Cardinality(station_keys) # iter.size

\* the records of one station the sweep expires at current_time
TimedOutAt(items, keys, station_id, current_time) ==
    {p \in TimedOut(items, keys, current_time) : p[1] = station_id}

\* cleanup_old_data: the records of one station after pruning
PrunedItems(items, station_id, cutoff) ==
    [items EXCEPT ![station_id] =
        [k \in Skus |-> IF items[station_id][k] # NoTs /\ items[station_id][k] < cutoff
                        THEN NoTs ELSE items[station_id][k]]]

StationEmpty(items, station_id) == \A k \in Skus : ~HasItem(items, station_id, k)

SWInit ==
    /\ sa_station_keys = {}
    /\ sw_pc = [w \in SweepTasks |-> "idle"]
    /\ sw_iter = NoIterator
    /\ sw_clean = NoCleanup
    /\ sw_sunk = {}
    /\ sw_expired = {}
    /\ sw_overlap = {}
    /\ sw_reads = 0

\* _timeout_worker wakes up; check_timeout_alerts reads the clock and starts the outer loop
SW_sweep_begin(current_time) ==
    /\ sw_pc["timeout"] = "idle"
    /\ now' = current_time
    /\ sw_iter' = [size |-> Cardinality(sa_station_keys), todo |-> sa_station_keys,
                   current_time |-> current_time, alerts |-> {}]
    /\ sw_pc' = [sw_pc EXCEPT !["timeout"] = "outer"]
    /\ UNCHANGED <<rfid_items_in_area, recent_scans, sa_alerts_generated, sa_last,
                   sa_station_keys, sw_clean, sw_sunk, sw_expired, sw_overlap, sw_reads>>

\* one step of the outer loop of check_timeout_alerts: the iterator raises (the worker's
\* except block drops the local alerts list), or is exhausted, or yields a station whose
\* inner loop runs
SW_sweep_next ==
    /\ sw_pc["timeout"] = "outer"
    /\ IF IteratorRaises(sw_iter, sa_station_keys)
       THEN /\ sw_pc' = [sw_pc EXCEPT !["timeout"] = "idle"]
            /\ sw_iter' = NoIterator
            /\ UNCHANGED <<rfid_items_in_area, sa_alerts_generated, sa_last, sw_expired,
                           sw_overlap>>
       ELSE IF sw_iter.todo \cap sa_station_keys = {}
       THEN /\ sw_pc' = [sw_pc EXCEPT !["timeout"] = "return"]
            /\ UNCHANGED <<rfid_items_in_area, sa_alerts_generated, sa_last, sw_iter,
                           sw_expired, sw_overlap>>
       ELSE \E st \in sw_iter.todo \cap sa_station_keys :
                LET out == TimedOutAt(rfid_items_in_area, sa_alerts_generated, st,
                                      sw_iter.current_time)
                    alerts == {TimeoutAlert(rfid_items_in_area, p, sw_iter.current_time) :
                                    p \in out}
                IN  /\ sa_alerts_generated' = sa_alerts_generated
                            \cup {TimeoutKey(p[1], p[2], sw_iter.current_time) : p \in out}
                    /\ rfid_items_in_area' = [rfid_items_in_area EXCEPT ![st] =
                            [k \in Skus |-> IF <<st, k>> \in out THEN NoTs ELSE @[k]]]
                    /\ sw_iter' = [sw_iter EXCEPT !.todo = @ \ {st},
                                                  !.alerts = @ \cup alerts]
                    /\ sw_expired' = sw_expired \cup alerts
                    /\ sw_overlap' = IF out # {} /\ sw_pc["cleanup"] = "visit"
                                     THEN sw_overlap \cup {<<"timeout", "cleanup">>}
                                     ELSE sw_overlap
                    /\ UNCHANGED <<sw_pc, sa_last>>
    /\ UNCHANGED <<now, recent_scans, sa_station_keys, sw_clean, sw_sunk, sw_reads>>

\* check_timeout_alerts returns and _timeout_worker hands each alert to _add_alert
SW_sweep_return ==
    /\ sw_pc["timeout"] = "return"
    /\ sa_last' = sw_iter.alerts
    /\ sw_sunk' = sw_sunk \cup sw_iter.alerts
    /\ sw_iter' = NoIterator
    /\ sw_pc' = [sw_pc EXCEPT !["timeout"] = "idle"]
    /\ UNCHANGED <<now, rfid_items_in_area, recent_scans, sa_alerts_generated,
                   sa_station_keys, sw_clean, sw_expired, sw_overlap, sw_reads>>

\* _cleanup_worker wakes up; cleanup_old_data computes its cutoff and copies the keys
SW_cleanup_begin ==
    /\ sw_pc["cleanup"] = "idle"
    /\ sw_clean' = [todo |-> sa_station_keys, cutoff |-> now - CleanupRetention,
                    runs |-> sw_clean.runs + 1]
    /\ sw_pc' = [sw_pc EXCEPT !["cleanup"] = "visit"]
    /\ UNCHANGED <<now, rfid_items_in_area, recent_scans, sa_alerts_generated, sa_last,
                   sa_station_keys, sw_iter, sw_sunk, sw_expired, sw_overlap, sw_reads>>

\* cleanup_old_data: one station of the first loop, or, the keys done, the second loop
SW_cleanup_visit ==
    /\ sw_pc["cleanup"] = "visit"
    /\ IF sw_clean.todo = {}
       THEN /\ recent_scans' = [st \in Stations |->
                    {s \in recent_scans[st] : s.timestamp >= sw_clean.cutoff}]
            /\ sw_pc' = [sw_pc EXCEPT !["cleanup"] = "idle"]
            /\ UNCHANGED <<rfid_items_in_area, sa_station_keys, sw_clean, sw_overlap>>
       ELSE \E st \in sw_clean.todo :
                LET items == PrunedItems(rfid_items_in_area, st, sw_clean.cutoff)
                    keys == IF StationEmpty(items, st)
                            THEN sa_station_keys \ {st} ELSE sa_station_keys
                IN  /\ rfid_items_in_area' = items
                    /\ sa_station_keys' = keys
                    /\ sw_clean' = [sw_clean EXCEPT !.todo = @ \ {st}]
                    /\ sw_overlap' =
                            IF sw_pc["timeout"] = "outer"
                                    /\ (items # rfid_items_in_area \/ keys # sa_station_keys)
                            THEN sw_overlap \cup {<<"cleanup", "timeout">>}
                            ELSE sw_overlap
                    /\ UNCHANGED <<recent_scans, sw_pc>>
    /\ UNCHANGED <<now, sa_alerts_generated, sa_last, sw_iter, sw_sunk, sw_expired, sw_reads>>

\* the stream worker's process_rfid_event, between two steps of the workers
SW_process_rfid_event(station_id, sku, location, timestamp) ==
    LET r == ProcessRfidEvent(rfid_items_in_area, recent_scans, sa_alerts_generated,
                              station_id, sku, location, timestamp)
        keys == IF RfidWellFormed(station_id, sku, location, timestamp)
                        /\ location = "IN_SCAN_AREA"
                THEN sa_station_keys \cup {station_id} ELSE sa_station_keys
        changed == r.items # rfid_items_in_area \/ keys # sa_station_keys
    IN  /\ rfid_items_in_area' = r.items
        /\ sa_alerts_generated' = r.keys
        /\ sa_last' = r.alerts
        /\ sa_station_keys' = keys
        /\ sw_reads' = sw_reads + 1
        /\ sw_overlap' = sw_overlap
                \cup (IF changed /\ sw_pc["timeout"] = "outer"
                      THEN {<<"ingest", "timeout">>} ELSE {})
                \cup (IF changed /\ sw_pc["cleanup"] = "visit"
                      THEN {<<"ingest", "cleanup">>} ELSE {})
        /\ UNCHANGED <<now, recent_scans, sw_pc, sw_iter, sw_clean, sw_sunk, sw_expired>>

(***************************************************************************)
(* EventCorrelator.  add_event stores a new dict (the event plus           *)
(* parsed_timestamp, station_id, customer_id) under the station and under  *)
(* the customer; the same dict object sits in both indices, and id() of    *)
(* it is written id.  max_events_per_key, 100 in the code, is scaled down  *)
(* to MaxEventsPerKey; the lock makes every method one step.               *)
(***************************************************************************)
CorrelationWindow == 30
CorrelatorRetention == 7200
MaxEventsPerKey == 2
MaxCorrelatorAdds == 3
CorrelatorStations == {"SCC1", "SCC2"}
CorrelatorCustomers == {"C1"}
CorrelatorTimes == {0, 20, 40}
CorrelatorClock == {7210, 7230}
Datasets == {"RFID_data", "POS_Transactions"}
NoFilter == {}
DatasetFilters == {NoFilter, {"POS_Transactions"}}
NotStored == 0

\* the events handed to add_event, as the stream delivers them (wrapped)
\* (RFID reads carry no customer_id, POS transactions do)
CorrelatorEvents ==
    [dataset : {"RFID_data"}, station_id : CorrelatorStations,
     customer_id : {None}, timestamp : CorrelatorTimes]
    \cup [dataset : {"POS_Transactions"}, station_id : CorrelatorStations,
          customer_id : CorrelatorCustomers, timestamp : CorrelatorTimes]
    \cup {[dataset |-> "POS_Transactions", station_id |-> "SCC1", customer_id |-> "C1", timestamp |-> NoTs],
          [dataset |-> "POS_Transactions", station_id |-> "SCC1", customer_id |-> "C1", timestamp |-> BadTs],
          [dataset |-> "POS_Transactions", station_id |-> None, customer_id |-> "C1", timestamp |-> 20]}

\* enriched_event of add_event
Enriched(e, ident) ==
    [id |-> ident, dataset |-> e.dataset, parsed_timestamp |-> e.timestamp,
     station_id |-> e.station_id, customer_id |-> e.customer_id]

\* the dict the caller passed to add_event, read the way find_related_events reads its
\* reference: it has no parsed_timestamp key, and station_id and customer_id sit under
\* "event", not at the top
AsPassed(x) ==
    [id |-> NotStored, dataset |-> x.dataset, parsed_timestamp |-> NoTs,
     station_id |-> None, customer_id |-> None]

\* _add_to_buffer
AddToBuffer_KeepOldest(buffer, event) ==
    LET b == Append(buffer, event)
    IN  IF Len(b) > MaxEventsPerKey THEN SubSeq(b, 1, MaxEventsPerKey) ELSE b

AddToBuffer(buffer, event) ==
    LET b == Append(buffer, event)
    IN  IF Len(b) > MaxEventsPerKey THEN SubSeq(b, Len(b) - MaxEventsPerKey + 1, Len(b)) ELSE b

\* _is_event_in_window
IsEventInWindow(event, start_time, end_time, dataset_types) ==
    /\ event.parsed_timestamp # NoTs
    /\ start_time <= event.parsed_timestamp /\ event.parsed_timestamp <= end_time
    /\ dataset_types # NoFilter => event.dataset \in dataset_types

\* [x for x in s if keep(x)]
RECURSIVE InWindow(_, _, _, _)
InWindow(s, start_time, end_time, dataset_types) ==
    IF s = <<>> THEN <<>>
    ELSE (IF IsEventInWindow(Head(s), start_time, end_time, dataset_types)
          THEN <<Head(s)>> ELSE <<>>)
         \o InWindow(Tail(s), start_time, end_time, dataset_types)

\* the loop over related_events: first occurrences by id(), the reference left out
RECURSIVE UniqueEvents(_, _, _)
UniqueEvents(related, seen, ref_id) ==
    IF related = <<>> THEN <<>>
    ELSE LET event == Head(related)
         IN  IF event.id # ref_id /\ event.id \notin seen
             THEN <<event>> \o UniqueEvents(Tail(related), seen \cup {event.id}, ref_id)
             ELSE UniqueEvents(Tail(related), seen, ref_id)

\* sorted(..., key=parsed_timestamp): stable insertion of x into a sorted list
RECURSIVE InsertByTime(_, _)
InsertByTime(s, x) ==
    IF s = <<>> THEN <<x>>
    ELSE IF Head(s).parsed_timestamp <= x.parsed_timestamp
    THEN <<Head(s)>> \o InsertByTime(Tail(s), x)
    ELSE <<x>> \o s

RECURSIVE SortedByTime(_)
SortedByTime(s) ==
    IF s = <<>> THEN <<>>
    ELSE InsertByTime(SortedByTime(SubSeq(s, 1, Len(s) - 1)), s[Len(s)])

\* find_related_events as a function of the indices
FindRelatedEvents(by_station, by_customer, ref, dataset_types) ==
    IF ref.parsed_timestamp = NoTs
    THEN <<>>
    ELSE LET start_time == ref.parsed_timestamp - CorrelationWindow
             end_time == ref.parsed_timestamp + CorrelationWindow
             at_station == IF Present(ref.station_id) /\ ref.station_id \in DOMAIN by_station
                           THEN InWindow(by_station[ref.station_id], start_time, end_time,
                                         dataset_types)
                           ELSE <<>>
             of_customer == IF Present(ref.customer_id) /\ ref.customer_id \in DOMAIN by_customer
                            THEN InWindow(by_customer[ref.customer_id], start_time, end_time,
                                          dataset_types)
                            ELSE <<>>
         IN  SortedByTime(UniqueEvents(at_station \o of_customer, {}, ref.id))

\* cleanup_old_events: one index entry after pruning (an emptied entry is deleted)
RECURSIVE RecentEvents(_, _)
RecentEvents(events, cutoff_time) ==
    IF events = <<>> THEN <<>>
    ELSE (IF Head(events).parsed_timestamp >= cutoff_time THEN <<Head(events)>> ELSE <<>>)
         \o RecentEvents(Tail(events), cutoff_time)

NoCorrelatorEvent ==
    [dataset |-> None, station_id |-> None, customer_id |-> None, timestamp |-> NoTs]

EcLast(op, e, ref, dataset_types, raised, returned) ==
    [op |-> op, event |-> e, ref |-> ref, dataset_types |-> dataset_types,
     raised |-> raised, returned |-> returned,
     station_before |-> events_by_station, customer_before |-> events_by_customer]

ECInit ==
    /\ events_by_station = [st \in CorrelatorStations |-> <<>>]
    /\ events_by_customer = [c \in CorrelatorCustomers |-> <<>>]
    /\ ec_serial = 0
    /\ ec_last = EcLast("none", NoCorrelatorEvent, AsPassed(NoCorrelatorEvent), NoFilter,
                        FALSE, <<>>)

\* EventCorrelator.add_event
EC_add_event(e) ==
    /\ ec_last' = EcLast("add_event", e, AsPassed(e), NoFilter, FALSE, <<>>)
    /\ IF ~PresentTs(e.timestamp) \/ ~Parses(e.timestamp)
       THEN UNCHANGED <<events_by_station, events_by_customer, ec_serial>>
       ELSE LET enriched_event == Enriched(e, ec_serial + 1)
            IN  /\ ec_serial' = ec_serial + 1
                /\ events_by_station' =
                        IF Present(e.station_id)
                        THEN [events_by_station EXCEPT ![e.station_id] =
                                    AddToBuffer(@, enriched_event)]
                        ELSE events_by_station
                /\ events_by_customer' =
                        IF Present(e.customer_id)
                        THEN [events_by_customer EXCEPT ![e.customer_id] =
                                    AddToBuffer(@, enriched_event)]
                        ELSE events_by_customer

\* EventCorrelator.find_related_events; `about` is the indexed event the reference stands for
EC_find_related_events(about, ref, dataset_types) ==
    /\ ec_last' = EcLast("find_related_events", about, ref, dataset_types, FALSE,
                         FindRelatedEvents(events_by_station, events_by_customer, ref,
                                           dataset_types))
    /\ UNCHANGED <<events_by_station, events_by_customer, ec_serial>>

\* EventCorrelator.cleanup_old_events, with datetime.now() = current_time
EC_cleanup_old_events(current_time) ==
    LET cutoff_time == current_time - CorrelatorRetention
    IN  /\ events_by_station' = [st \in CorrelatorStations |->
                                    RecentEvents(events_by_station[st], cutoff_time)]
        /\ events_by_customer' = [c \in CorrelatorCustomers |->
                                    RecentEvents(events_by_customer[c], cutoff_time)]
        /\ ec_last' = EcLast("cleanup_old_events", NoCorrelatorEvent,
                             AsPassed(NoCorrelatorEvent), NoFilter, FALSE, <<>>)
        /\ UNCHANGED ec_serial

(***************************************************************************)
(* EventCorrelator under the ingestion thread and the cleanup task.  Each  *)
(* method is split at its statements: taking the lock, one index at a      *)
(* time for add_event and find_related_events, one key at a time for       *)
(* cleanup_old_events, and leaving the with block.                         *)
(***************************************************************************)
CorrelatorThreads == {"ingest", "cleanup"}
MaxThreadedAdds == 2

\* `with self.lock` can be entered: no other thread holds the RLock
LockFree_Unlocked(lock, thread) == TRUE

LockFree(lock, thread) == lock \in {"free", thread}

\* the thread is between entering and leaving the with block of its call
InsideLock(at) == at \notin {"idle", "lock"}

NoIngestCall ==
    [op |-> "none", event |-> NoCorrelatorEvent, ref |-> AsPassed(NoCorrelatorEvent),
     dataset_types |-> NoFilter, enriched |-> AsPassed(NoCorrelatorEvent),
     related |-> <<>>, returned |-> <<>>,
     seen_station |-> [st \in CorrelatorStations |-> <<>>],
     seen_customer |-> [c \in CorrelatorCustomers |-> <<>>],
     seen_pruning |-> FALSE, overlapped |-> FALSE, waited |-> FALSE]

NoCleanupCall ==
    [cutoff_time |-> NoTs, pending |-> {}, runs |-> 0,
     station_before |-> [st \in CorrelatorStations |-> <<>>],
     customer_before |-> [c \in CorrelatorCustomers |-> <<>>],
     keys_before |-> [station |-> {}, customer |-> {}],
     seen_adding |-> FALSE]

CTInit ==
    /\ ct_lock = "free"
    /\ ct_pc = [t \in CorrelatorThreads |-> "idle"]
    /\ ct_keys = [station |-> {}, customer |-> {}]
    /\ ct_ingest = NoIngestCall
    /\ ct_cleanup = NoCleanupCall

\* the ingestion thread calls add_event(e)
CT_add_call(e) ==
    /\ ct_pc["ingest"] = "idle"
    /\ ct_pc' = [ct_pc EXCEPT !["ingest"] = "lock"]
    /\ ct_ingest' = [NoIngestCall EXCEPT !.op = "add_event", !.event = e,
                        !.overlapped = (ct_pc["cleanup"] # "idle"),
                        !.waited = InsideLock(ct_pc["cleanup"])]
    /\ UNCHANGED <<now, ecVars, ct_lock, ct_keys, ct_cleanup>>

\* the ingestion thread calls find_related_events(ref, dataset_types)
CT_find_call(ref, dataset_types) ==
    /\ ct_pc["ingest"] = "idle"
    /\ ct_pc' = [ct_pc EXCEPT !["ingest"] = "lock"]
    /\ ct_ingest' = [NoIngestCall EXCEPT !.op = "find_related_events", !.ref = ref,
                        !.dataset_types = dataset_types,
                        !.overlapped = (ct_pc["cleanup"] # "idle"),
                        !.waited = InsideLock(ct_pc["cleanup"])]
    /\ UNCHANGED <<now, ecVars, ct_lock, ct_keys, ct_cleanup>>

\* add_event / find_related_events: `with self.lock:` and the statements up to the
\* first index
CT_ingest_enter ==
    /\ ct_pc["ingest"] = "lock"
    /\ LockFree(ct_lock, "ingest")
    /\ ct_lock' = "ingest"
    /\ LET seen == [ct_ingest EXCEPT !.seen_station = events_by_station,
                                     !.seen_customer = events_by_customer,
                                     !.seen_pruning = InsideLock(ct_pc["cleanup"])]
           e == ct_ingest.event
       IN  IF ct_ingest.op = "add_event"
           THEN IF ~PresentTs(e.timestamp) \/ ~Parses(e.timestamp)
                THEN /\ ct_pc' = [ct_pc EXCEPT !["ingest"] = "leave"]
                     /\ ct_ingest' = seen
                     /\ UNCHANGED ec_serial
                ELSE /\ ct_pc' = [ct_pc EXCEPT !["ingest"] = "add_station"]
                     /\ ct_ingest' = [seen EXCEPT !.enriched = Enriched(e, ec_serial + 1)]
                     /\ ec_serial' = ec_serial + 1
           ELSE /\ ct_pc' = [ct_pc EXCEPT !["ingest"] =
                                IF ct_ingest.ref.parsed_timestamp = NoTs
                                THEN "leave" ELSE "find_station"]
                /\ ct_ingest' = seen
                /\ UNCHANGED ec_serial
    /\ UNCHANGED <<now, events_by_station, events_by_customer, ec_last, ct_keys, ct_cleanup>>

\* add_event: store by station
CT_add_station ==
    /\ ct_pc["ingest"] = "add_station"
    /\ ct_pc' = [ct_pc EXCEPT !["ingest"] = "add_customer"]
    /\ LET st == ct_ingest.event.station_id
       IN  IF Present(st)
           THEN /\ events_by_station' = [events_by_station EXCEPT ![st] =
                                            AddToBuffer(@, ct_ingest.enriched)]
                /\ ct_keys' = [ct_keys EXCEPT !.station = @ \cup {st}]
           ELSE UNCHANGED <<events_by_station, ct_keys>>
    /\ UNCHANGED <<now, events_by_customer, ec_serial, ec_last, ct_lock, ct_ingest, ct_cleanup>>

\* add_event: store by customer
CT_add_customer ==
    /\ ct_pc["ingest"] = "add_customer"
    /\ ct_pc' = [ct_pc EXCEPT !["ingest"] = "leave"]
    /\ LET c == ct_ingest.event.customer_id
       IN  IF Present(c)
           THEN /\ events_by_customer' = [events_by_customer EXCEPT ![c] =
                                            AddToBuffer(@, ct_ingest.enriched)]
                /\ ct_keys' = [ct_keys EXCEPT !.customer = @ \cup {c}]
           ELSE UNCHANGED <<events_by_customer, ct_keys>>
    /\ UNCHANGED <<now, events_by_station, ec_serial, ec_last, ct_lock, ct_ingest, ct_cleanup>>

\* find_related_events: search by station
CT_find_station ==
    /\ ct_pc["ingest"] = "find_station"
    /\ ct_pc' = [ct_pc EXCEPT !["ingest"] = "find_customer"]
    /\ LET ref == ct_ingest.ref
       IN  ct_ingest' = [ct_ingest EXCEPT !.related =
                IF Present(ref.station_id) /\ ref.station_id \in ct_keys.station
                THEN InWindow(events_by_station[ref.station_id],
                              ref.parsed_timestamp - CorrelationWindow,
                              ref.parsed_timestamp + CorrelationWindow,
                              ct_ingest.dataset_types)
                ELSE <<>>]
    /\ UNCHANGED <<now, ecVars, ct_lock, ct_keys, ct_cleanup>>

\* find_related_events: search by customer, remove duplicates, sort
CT_find_customer ==
    /\ ct_pc["ingest"] = "find_customer"
    /\ ct_pc' = [ct_pc EXCEPT !["ingest"] = "leave"]
    /\ LET ref == ct_ingest.ref
           of_customer ==
                IF Present(ref.customer_id) /\ ref.customer_id \in ct_keys.customer
                THEN InWindow(events_by_customer[ref.customer_id],
                              ref.parsed_timestamp - CorrelationWindow,
                              ref.parsed_timestamp + CorrelationWindow,
                              ct_ingest.dataset_types)
                ELSE <<>>
       IN  ct_ingest' = [ct_ingest EXCEPT !.returned =
                SortedByTime(UniqueEvents(ct_ingest.related \o of_customer, {}, ref.id))]
    /\ UNCHANGED <<now, ecVars, ct_lock, ct_keys, ct_cleanup>>

\* the with block of the ingestion thread's call is left
CT_ingest_leave ==
    /\ ct_pc["ingest"] = "leave"
    /\ ct_pc' = [ct_pc EXCEPT !["ingest"] = "idle"]
    /\ ct_lock' = IF ct_lock = "ingest" THEN "free" ELSE ct_lock
    /\ UNCHANGED <<now, ecVars, ct_keys, ct_ingest, ct_cleanup>>

\* the cleanup worker calls cleanup_old_events()
CT_cleanup_call ==
    /\ ct_pc["cleanup"] = "idle"
    /\ ct_pc' = [ct_pc EXCEPT !["cleanup"] = "lock"]
    /\ ct_cleanup' = [NoCleanupCall EXCEPT !.runs = ct_cleanup.runs]
    /\ ct_ingest' = [ct_ingest EXCEPT !.overlapped = (ct_pc["ingest"] # "idle")]
    /\ UNCHANGED <<now, ecVars, ct_lock, ct_keys>>

\* cleanup_old_events: `with self.lock:`, cutoff_time from datetime.now() = current_time,
\* and list(self.events_by_station.keys())
CT_cleanup_enter(current_time) ==
    /\ ct_pc["cleanup"] = "lock"
    /\ LockFree(ct_lock, "cleanup")
    /\ ct_lock' = "cleanup"
    /\ ct_pc' = [ct_pc EXCEPT !["cleanup"] = "stations"]
    /\ ct_cleanup' = [ct_cleanup EXCEPT !.cutoff_time = current_time - CorrelatorRetention,
                                        !.pending = ct_keys.station,
                                        !.station_before = events_by_station,
                                        !.customer_before = events_by_customer,
                                        !.keys_before = ct_keys,
                                        !.seen_adding = InsideLock(ct_pc["ingest"])]
    /\ UNCHANGED <<ecVars, ct_keys, ct_ingest>>

\* cleanup_old_events: one pass of the loop over the station keys; after the last one,
\* list(self.events_by_customer.keys())
CT_cleanup_station ==
    /\ ct_pc["cleanup"] = "stations"
    /\ IF ct_cleanup.pending = {}
       THEN /\ ct_pc' = [ct_pc EXCEPT !["cleanup"] = "customers"]
            /\ ct_cleanup' = [ct_cleanup EXCEPT !.pending = ct_keys.customer]
            /\ UNCHANGED <<events_by_station, ct_keys>>
       ELSE \E station_id \in ct_cleanup.pending :
                LET recent_events == RecentEvents(events_by_station[station_id],
                                                  ct_cleanup.cutoff_time)
                IN  /\ events_by_station' =
                            [events_by_station EXCEPT ![station_id] = recent_events]
                    /\ ct_keys' = IF recent_events # <<>> THEN ct_keys
                                  ELSE [ct_keys EXCEPT !.station = @ \ {station_id}]
                    /\ ct_cleanup' = [ct_cleanup EXCEPT !.pending = @ \ {station_id}]
                    /\ UNCHANGED ct_pc
    /\ UNCHANGED <<now, events_by_customer, ec_serial, ec_last, ct_lock, ct_ingest>>

\* cleanup_old_events: one pass of the loop over the customer keys
CT_cleanup_customer ==
    /\ ct_pc["cleanup"] = "customers"
    /\ IF ct_cleanup.pending = {}
       THEN /\ ct_pc' = [ct_pc EXCEPT !["cleanup"] = "leave"]
            /\ UNCHANGED <<events_by_customer, ct_keys, ct_cleanup>>
       ELSE \E customer_id \in ct_cleanup.pending :
                LET recent_events == RecentEvents(events_by_customer[customer_id],
                                                  ct_cleanup.cutoff_time)
                IN  /\ events_by_customer' =
                            [events_by_customer EXCEPT ![customer_id] = recent_events]
                    /\ ct_keys' = IF recent_events # <<>> THEN ct_keys
                                  ELSE [ct_keys EXCEPT !.customer = @ \ {customer_id}]
                    /\ ct_cleanup' = [ct_cleanup EXCEPT !.pending = @ \ {customer_id}]
                    /\ UNCHANGED ct_pc
    /\ UNCHANGED <<now, events_by_station, ec_serial, ec_last, ct_lock, ct_ingest>>

\* the with block of cleanup_old_events is left
CT_cleanup_leave ==
    /\ ct_pc["cleanup"] = "leave"
    /\ ct_pc' = [ct_pc EXCEPT !["cleanup"] = "idle"]
    /\ ct_lock' = IF ct_lock = "cleanup" THEN "free" ELSE ct_lock
    /\ ct_cleanup' = [ct_cleanup EXCEPT !.runs = @ + 1]
    /\ UNCHANGED <<now, ecVars, ct_keys, ct_ingest>>

(***************************************************************************)
(* DetectionEngine.start and stop over several runs.  Every start() that   *)
(* finds running False spawns a new cleanup thread and a new timeout       *)
(* thread; a thread is told apart by the number of the start() that        *)
(* spawned it.  The threads are daemons that nobody joins.                 *)
(***************************************************************************)
MaxStarts == 2
WorkerLoops == {"cleanup", "timeout"}
WorkerThreads == WorkerLoops \X (1..MaxStarts)

\* the thread exists and has not left its loop
Live(at) == at \notin {"unborn", "done"}

LiveWorkers(workers, loop) == {i \in WorkerThreads : i[1] = loop /\ Live(workers[i])}

\* start(), line 116: the call returns at once
StartReturnsEarly(is_running) == is_running

\* the engine's state that the lifecycle calls leave alone
engineRest == <<started, alert_queue, saved_events, alerts_generated, events_processed, events_file, export_file, pc, cur, tmp, tick_state, put_log, pulled, escaped, late, queued_at_stop, eng_last>>

LCInit ==
    /\ lc_workers = [i \in WorkerThreads |-> "unborn"]
    /\ lc_starts = 0
    /\ lc_stopped = {}
    /\ lc_last = [op |-> "none", was_running |-> FALSE, spawned |-> {}]

\* DetectionEngine.start, with _start_background_tasks
LC_start ==
    IF StartReturnsEarly(running)
    THEN /\ lc_last' = [op |-> "start", was_running |-> running, spawned |-> {}]
         /\ UNCHANGED <<running, stream_running, lc_workers, lc_starts, lc_stopped>>
    ELSE /\ lc_starts < MaxStarts
         /\ running' = TRUE
         /\ stream_running' = TRUE
         /\ lc_starts' = lc_starts + 1
         /\ lc_workers' = [i \in WorkerThreads |->
                IF i[2] = lc_starts + 1 THEN "loop" ELSE lc_workers[i]]
         /\ lc_last' = [op |-> "start", was_running |-> running,
                        spawned |-> {i \in WorkerThreads : i[2] = lc_starts + 1}]
         /\ UNCHANGED lc_stopped

\* DetectionEngine.stop
LC_stop ==
    /\ running' = FALSE
    /\ stream_running' = FALSE
    /\ lc_stopped' = lc_stopped \cup {i \in WorkerThreads : Live(lc_workers[i])}
    /\ lc_last' = [op |-> "stop", was_running |-> running, spawned |-> {}]
    /\ UNCHANGED <<lc_workers, lc_starts>>

\* the head of a worker loop: while self.running
LC_worker_loop(i) ==
    /\ lc_workers[i] = "loop"
    /\ lc_workers' = [lc_workers EXCEPT ![i] = IF running THEN "sleep" ELSE "done"]
    /\ UNCHANGED <<running, stream_running, lc_starts, lc_stopped, lc_last>>

\* a worker's time.sleep returns
LC_worker_wake(i) ==
    /\ lc_workers[i] = "sleep"
    /\ lc_workers' = [lc_workers EXCEPT ![i] = "tick"]
    /\ UNCHANGED <<running, stream_running, lc_starts, lc_stopped, lc_last>>

\* the calls of one tick, inside try/except
LC_worker_tick(i, raised) ==
    /\ lc_workers[i] = "tick"
    /\ lc_workers' = [lc_workers EXCEPT ![i] = AfterTick(raised)]
    /\ UNCHANGED <<running, stream_running, lc_starts, lc_stopped, lc_last>>

(***************************************************************************)
(* get_alerts and get_all_alerts called from two threads: the dashboard's  *)
(* server thread (web_dashboard/api/endpoints.py) and the thread that      *)
(* writes the output (run_demo.py).  The loop condition reads              *)
(* alert_queue.empty() and the body calls alert_queue.get(), which blocks  *)
(* while the queue is empty; nothing holds a lock between the two.         *)
(***************************************************************************)
Consumers == {"dashboard", "demo"}
MaxPuts == 2
MaxPulls == 3
NoPull == [op |-> "none", max_alerts |-> 0, alerts |-> <<>>, count |-> 0]

\* the loop condition of get_alerts (line 350) and of get_all_alerts (line 358)
PullsAgain(queue, call) ==
    /\ queue # <<>>
    /\ (call.op = "get_all_alerts" \/ call.count < call.max_alerts)

\* the engine's state that a pull leaves alone
pullRest == <<running, stream_running, started, saved_events, alerts_generated, events_processed, events_file, export_file, pc, cur, tmp, tick_state, put_log, pulled, escaped, late, queued_at_stop, eng_last>>

CPInit ==
    /\ cp_pc = [c \in Consumers |-> "idle"]
    /\ cp_call = [c \in Consumers |-> NoPull]
    /\ cp_raced = [c \in Consumers |-> FALSE]
    /\ cp_puts = 0
    /\ cp_calls = 0

\* a detector's alert reaches the queue: self.alert_queue.put(alert)
CP_put ==
    /\ cp_puts < MaxPuts
    /\ cp_puts' = cp_puts + 1
    /\ alert_queue' = Append(alert_queue, cp_puts + 1)
    /\ UNCHANGED <<cp_pc, cp_call, cp_raced, cp_calls>>

\* get_alerts(max_alerts) or get_all_alerts() is called: alerts = []; count = 0
CP_call(c, op, max_alerts) ==
    /\ cp_pc[c] = "idle"
    /\ cp_calls < MaxPulls
    /\ cp_calls' = cp_calls + 1
    /\ cp_pc' = [cp_pc EXCEPT ![c] = "check"]
    /\ cp_call' = [cp_call EXCEPT ![c] = [op |-> op, max_alerts |-> max_alerts, alerts |-> <<>>, count |-> 0]]
    /\ cp_raced' = [cp_raced EXCEPT ![c] = FALSE]
    /\ UNCHANGED <<alert_queue, cp_puts>>

\* while not self.alert_queue.empty() [and count < max_alerts]; else return alerts
CP_check(c) ==
    /\ cp_pc[c] = "check"
    /\ cp_pc' = [cp_pc EXCEPT ![c] = IF PullsAgain(alert_queue, cp_call[c]) THEN "get" ELSE "idle"]
    /\ cp_raced' = [cp_raced EXCEPT ![c] = FALSE]
    /\ UNCHANGED <<alert_queue, cp_call, cp_puts, cp_calls>>

\* alerts.append(self.alert_queue.get()); count += 1.  Queue.get() waits for an item
CP_get(c) ==
    /\ cp_pc[c] = "get"
    /\ alert_queue # <<>>
    /\ alert_queue' = Tail(alert_queue)
    /\ cp_call' = [cp_call EXCEPT ![c].alerts = Append(@, Head(alert_queue)), ![c].count = @ + 1]
    /\ cp_pc' = [cp_pc EXCEPT ![c] = "check"]
    /\ cp_raced' = [d \in Consumers |-> IF d # c /\ cp_pc[d] = "get" THEN TRUE ELSE cp_raced[d]]
    /\ UNCHANGED <<cp_puts, cp_calls>>

Init ==
    /\ now = 0
    /\ SAInit
    /\ SCInit
    /\ INVInit
    /\ WDInit
    /\ BSInit
    /\ QMInit
    /\ SOInit
    /\ SHInit
    /\ ENGInit
    /\ DQInit
    /\ SWInit
    /\ ECInit
    /\ CTInit
    /\ LCInit
    /\ CPInit

SARfid ==
    /\ \E e \in RfidEvents :
            SA_process_rfid_event(e.station_id, e.sku, e.location, e.timestamp)
    /\ UNCHANGED <<now, scVars, invVars, wdVars, bsVars, qmVars, soVars, shVars, engVars, dqVars, swVars, ecVars, ctVars, lcVars, cpVars>>

SAPos ==
    /\ \E e \in PosScanEvents : SA_process_pos_event(e.station_id, e.sku, e.timestamp)
    /\ UNCHANGED <<now, scVars, invVars, wdVars, bsVars, qmVars, soVars, shVars, engVars, dqVars, swVars, ecVars, ctVars, lcVars, cpVars>>

\* the timeout worker wakes up at a later instant and sweeps
SASweep ==
    \E t \in SATimes :
        /\ t > now
        /\ now' = t
        /\ SA_check_timeout_alerts(t)
        /\ UNCHANGED <<scVars, invVars, wdVars, bsVars, qmVars, soVars, shVars, engVars, dqVars, swVars, ecVars, ctVars, lcVars, cpVars>>

NextSA ==
    \/ SARfid
    \/ SAPos
    \/ SASweep

SpecSA == Init /\ [][NextSA]_vars

SCEvent ==
    /\ sc_events < MaxSCEvents
    /\ sc_events' = sc_events + 1
    /\ \E e \in StationEvents : SC_process_station_event(e.station_id, e.status, e.timestamp)
    /\ UNCHANGED <<now, saVars, invVars, wdVars, bsVars, qmVars, soVars, shVars, engVars, dqVars, swVars, ecVars, ctVars, lcVars, cpVars>>

\* the timeout worker wakes up at a later instant and sweeps
SCSweep ==
    \E t \in SCTimes :
        /\ t > now
        /\ now' = t
        /\ SC_check_station_timeouts(t)
        /\ UNCHANGED <<sc_events, saVars, invVars, wdVars, bsVars, qmVars, soVars, shVars, engVars, dqVars, swVars, ecVars, ctVars, lcVars, cpVars>>

NextSC ==
    \/ SCEvent
    \/ SCSweep

SpecSC == Init /\ [][NextSC]_vars

\* sweeps far enough apart for a station to fall silent twice
SilenceSweepTimes == {300, 700}

SCSilenceSweep ==
    \E t \in SilenceSweepTimes :
        /\ t > now
        /\ now' = t
        /\ SC_check_station_timeouts(t)
        /\ UNCHANGED <<sc_events, saVars, invVars, wdVars, bsVars, qmVars, soVars, shVars, engVars, dqVars, swVars, ecVars, ctVars, lcVars, cpVars>>

NextSIL ==
    \/ SCEvent
    \/ SCSilenceSweep

SpecSIL == Init /\ [][NextSIL]_vars

INVSnapshot ==
    /\ \E e \in InvSnapshotEvents : INV_process_inventory_snapshot(e.data, e.timestamp)
    /\ UNCHANGED <<now, inv_pos, saVars, scVars, wdVars, bsVars, qmVars, soVars, shVars, engVars, dqVars, swVars, ecVars, ctVars, lcVars, cpVars>>

INVRfid ==
    /\ \E e \in InvRfidEvents :
            /\ (InvRfidWellFormed(e.sku, e.epc, e.location, e.timestamp)
                    /\ e.location = "IN_SCAN_AREA") => rfid_tally[e.sku] < MaxTally
            /\ INV_process_rfid_event(e.sku, e.epc, e.location, e.timestamp)
    /\ UNCHANGED <<now, inv_pos, saVars, scVars, wdVars, bsVars, qmVars, soVars, shVars, engVars, dqVars, swVars, ecVars, ctVars, lcVars, cpVars>>

INVPos ==
    /\ inv_pos < MaxInvPos
    /\ inv_pos' = inv_pos + 1
    /\ \E sku \in Skus \cup {None}, t \in {0, NoTs, BadTs} : INV_process_pos_transaction(sku, t)
    /\ UNCHANGED <<now, saVars, scVars, wdVars, bsVars, qmVars, soVars, shVars, engVars, dqVars, swVars, ecVars, ctVars, lcVars, cpVars>>

NextINV ==
    \/ INVSnapshot
    \/ INVRfid
    \/ INVPos

SpecINV == Init /\ [][NextINV]_vars

WDLoad ==
    /\ \E catalog \in WeightCatalogs : WD_load_product_catalog(catalog)
    /\ UNCHANGED <<now, saVars, scVars, invVars, bsVars, qmVars, soVars, shVars, engVars, dqVars, swVars, ecVars, ctVars, lcVars, cpVars>>

WDPos ==
    /\ \E e \in WeightPosEvents :
            WD_process_pos_transaction(e.station_id, e.sku, e.weight_g, e.timestamp)
    /\ UNCHANGED <<now, saVars, scVars, invVars, bsVars, qmVars, soVars, shVars, engVars, dqVars, swVars, ecVars, ctVars, lcVars, cpVars>>

NextWD ==
    \/ WDLoad
    \/ WDPos

SpecWD == Init /\ [][NextWD]_vars

BSLoad ==
    /\ \E catalog \in PriceCatalogs : BS_load_product_catalog(catalog)
    /\ UNCHANGED <<now, saVars, scVars, invVars, wdVars, qmVars, soVars, shVars, engVars, dqVars, swVars, ecVars, ctVars, lcVars, cpVars>>

BSRecognition ==
    /\ \E e \in RecognitionEvents :
            /\ Present(e.station_id) => Len(recognition_events[e.station_id]) < MaxRecognitions
            /\ BS_process_product_recognition(e.station_id, e.predicted_product, e.accuracy,
                                              e.timestamp)
    /\ UNCHANGED <<now, saVars, scVars, invVars, wdVars, qmVars, soVars, shVars, engVars, dqVars, swVars, ecVars, ctVars, lcVars, cpVars>>

BSPos ==
    /\ \E e \in BarcodePosEvents : BS_process_pos_transaction(e.station_id, e.sku, e.timestamp)
    /\ UNCHANGED <<now, saVars, scVars, invVars, wdVars, qmVars, soVars, shVars, engVars, dqVars, swVars, ecVars, ctVars, lcVars, cpVars>>

NextBS ==
    \/ BSLoad
    \/ BSRecognition
    \/ BSPos

SpecBS == Init /\ [][NextBS]_vars

QMQueue ==
    /\ \E e \in QueueEvents :
            /\ QueueEventWellFormed(e.station_id, e.customer_count, e.timestamp)
                    => Len(HistoryAfter(queue_history[e.station_id], e.customer_count,
                                        e.timestamp)) <= MaxQueueSamples
            /\ QM_process_queue_event(e.station_id, e.customer_count, e.average_dwell_time,
                                      e.timestamp)
    /\ UNCHANGED <<now, saVars, scVars, invVars, wdVars, bsVars, soVars, shVars, engVars, dqVars, swVars, ecVars, ctVars, lcVars, cpVars>>

NextQM ==
    QMQueue

SpecQM == Init /\ [][NextQM]_vars

SOPos ==
    /\ \E e \in SuccessPosEvents :
            /\ FedEligible(e) => so_eligible < MaxSOCalls
            /\ SuccessEligible(EventData(e).station_id, EventData(e).timestamp,
                               EventData(e).status, EventData(e).customer_id, EventData(e).sku)
                    => Len(LedgerAfter(successful_transactions, EventData(e).station_id,
                                       EventData(e).customer_id, EventData(e).sku,
                                       EventData(e).timestamp)) <= MaxTransactions
            /\ SO_process_pos_transaction(e)
    /\ UNCHANGED <<now, saVars, scVars, invVars, wdVars, bsVars, qmVars, shVars, engVars, dqVars, swVars, ecVars, ctVars, lcVars, cpVars>>

NextSO ==
    SOPos

SpecSO == Init /\ [][NextSO]_vars

\* One run exercises one detector: the detectors share no state, and the question
\* asked of each is the same.
SHStation ==
    /\ sh_last.detector \in {"none", "SystemCrash"}
    /\ sc_events < MaxSCEvents
    /\ sc_events' = sc_events + 1
    /\ \E f \in StationEvents : \E e \in BothShapes(f) : SH_process_station_event(e)
    /\ UNCHANGED <<now, saVars, invVars, wdVars, bsVars, qmVars, soVars, engVars, dqVars, swVars, ecVars, ctVars, lcVars, cpVars>>

SHSuccess ==
    /\ sh_last.detector \in {"none", "SuccessOperation"}
    /\ \E e \in SuccessPosEvents :
            /\ FedEligible(e) => so_eligible < MaxSOCalls
            /\ Len(SuccessOutcome(successful_transactions, last_success_per_station,
                                  e).state[1]) <= MaxTransactions
            /\ SH_process_pos_transaction(e)
    /\ UNCHANGED <<now, saVars, scVars, invVars, wdVars, bsVars, qmVars, engVars, dqVars, swVars, ecVars, ctVars, lcVars, cpVars>>

NextSH ==
    \/ SHStation
    \/ SHSuccess

SpecSH == Init /\ [][NextSH]_vars

\* the number the next alert gets: one more than the alerts made so far
NextAlertId == Len(put_log) + Cardinality({t \in Threads : pc[t] = "put"}) + 1

NewAlerts == {NoAlert} \cup {a \in {NextAlertId} : a <= MaxAlerts}

ENGStart ==
    /\ ENG_start
    /\ UNCHANGED <<now, saVars, scVars, invVars, wdVars, bsVars, qmVars, soVars, shVars, dqVars, swVars, ecVars, ctVars, lcVars, cpVars>>

ENGStop ==
    /\ ENG_stop
    /\ UNCHANGED <<now, saVars, scVars, invVars, wdVars, bsVars, qmVars, soVars, shVars, dqVars, swVars, ecVars, ctVars, lcVars, cpVars>>

ENGStreamRead ==
    /\ events_processed < MaxDispatches
    /\ ENG_stream_read
    /\ UNCHANGED <<now, saVars, scVars, invVars, wdVars, bsVars, qmVars, soVars, shVars, dqVars, swVars, ecVars, ctVars, lcVars, cpVars>>

ENGDispatch ==
    /\ \E alert \in NewAlerts : ENG_dispatch(alert)
    /\ UNCHANGED <<now, saVars, scVars, invVars, wdVars, bsVars, qmVars, soVars, shVars, dqVars, swVars, ecVars, ctVars, lcVars, cpVars>>

ENGTimeoutLoop ==
    /\ ENG_worker_loop("timeout")
    /\ UNCHANGED <<now, saVars, scVars, invVars, wdVars, bsVars, qmVars, soVars, shVars, dqVars, swVars, ecVars, ctVars, lcVars, cpVars>>

ENGTimeoutWake ==
    /\ ENG_worker_wake("timeout")
    /\ UNCHANGED <<now, saVars, scVars, invVars, wdVars, bsVars, qmVars, soVars, shVars, dqVars, swVars, ecVars, ctVars, lcVars, cpVars>>

ENGTimeoutTick ==
    /\ \E raised \in BOOLEAN, alert \in NewAlerts : ENG_timeout_tick(raised, alert)
    /\ UNCHANGED <<now, saVars, scVars, invVars, wdVars, bsVars, qmVars, soVars, shVars, dqVars, swVars, ecVars, ctVars, lcVars, cpVars>>

ENGTimeoutTickQuiet ==
    /\ \E raised \in BOOLEAN : ENG_timeout_tick(raised, NoAlert)
    /\ UNCHANGED <<now, saVars, scVars, invVars, wdVars, bsVars, qmVars, soVars, shVars, dqVars, swVars, ecVars, ctVars, lcVars, cpVars>>

ENGCleanupLoop ==
    /\ ENG_worker_loop("cleanup")
    /\ UNCHANGED <<now, saVars, scVars, invVars, wdVars, bsVars, qmVars, soVars, shVars, dqVars, swVars, ecVars, ctVars, lcVars, cpVars>>

ENGCleanupWake ==
    /\ ENG_worker_wake("cleanup")
    /\ UNCHANGED <<now, saVars, scVars, invVars, wdVars, bsVars, qmVars, soVars, shVars, dqVars, swVars, ecVars, ctVars, lcVars, cpVars>>

ENGCleanupTick ==
    /\ \E raised \in BOOLEAN : ENG_cleanup_tick(raised)
    /\ UNCHANGED <<now, saVars, scVars, invVars, wdVars, bsVars, qmVars, soVars, shVars, dqVars, swVars, ecVars, ctVars, lcVars, cpVars>>

ENGAddPut ==
    /\ \E t \in Threads : ENG_add_put(t)
    /\ UNCHANGED <<now, saVars, scVars, invVars, wdVars, bsVars, qmVars, soVars, shVars, dqVars, swVars, ecVars, ctVars, lcVars, cpVars>>

ENGAddRead ==
    /\ \E t \in Threads : ENG_add_read(t)
    /\ UNCHANGED <<now, saVars, scVars, invVars, wdVars, bsVars, qmVars, soVars, shVars, dqVars, swVars, ecVars, ctVars, lcVars, cpVars>>

ENGAddWrite ==
    /\ \E t \in Threads : ENG_add_write(t)
    /\ UNCHANGED <<now, saVars, scVars, invVars, wdVars, bsVars, qmVars, soVars, shVars, dqVars, swVars, ecVars, ctVars, lcVars, cpVars>>

ENGAddAppend ==
    /\ \E t \in Threads : ENG_add_append(t)
    /\ UNCHANGED <<now, saVars, scVars, invVars, wdVars, bsVars, qmVars, soVars, shVars, dqVars, swVars, ecVars, ctVars, lcVars, cpVars>>

ENGAddSave ==
    /\ \E t \in Threads, outcome \in SaveOutcomes : ENG_add_save(t, outcome)
    /\ UNCHANGED <<now, saVars, scVars, invVars, wdVars, bsVars, qmVars, soVars, shVars, dqVars, swVars, ecVars, ctVars, lcVars, cpVars>>

ENGGetAlerts ==
    /\ \E n \in PullSizes : ENG_get_alerts(n)
    /\ UNCHANGED <<now, saVars, scVars, invVars, wdVars, bsVars, qmVars, soVars, shVars, dqVars, swVars, ecVars, ctVars, lcVars, cpVars>>

ENGGetAllAlerts ==
    /\ ENG_get_all_alerts
    /\ UNCHANGED <<now, saVars, scVars, invVars, wdVars, bsVars, qmVars, soVars, shVars, dqVars, swVars, ecVars, ctVars, lcVars, cpVars>>

ENGStatus ==
    /\ ENG_get_system_status
    /\ UNCHANGED <<now, saVars, scVars, invVars, wdVars, bsVars, qmVars, soVars, shVars, dqVars, swVars, ecVars, ctVars, lcVars, cpVars>>

ENGExport ==
    /\ ENG_export_events_jsonl
    /\ UNCHANGED <<now, saVars, scVars, invVars, wdVars, bsVars, qmVars, soVars, shVars, dqVars, swVars, ecVars, ctVars, lcVars, cpVars>>

ENGGenerateOutput ==
    /\ ENG_generate_output
    /\ UNCHANGED <<now, saVars, scVars, invVars, wdVars, bsVars, qmVars, soVars, shVars, dqVars, swVars, ecVars, ctVars, lcVars, cpVars>>

\* the stream worker, the timeout worker and the sink, with nobody pulling; the cleanup
\* worker never touches the sink and is left asleep
NextENG ==
    \/ ENGStart
    \/ ENGStop
    \/ ENGStreamRead
    \/ ENGDispatch
    \/ ENGTimeoutLoop
    \/ ENGTimeoutWake
    \/ ENGTimeoutTick
    \/ ENGAddPut
    \/ ENGAddRead
    \/ ENGAddWrite
    \/ ENGAddAppend
    \/ ENGAddSave

SpecENG == Init /\ [][NextENG]_vars

\* the two periodic workers between start() and stop(), with sweeps that find nothing
NextWORK ==
    \/ ENGStart
    \/ ENGStop
    \/ ENGTimeoutLoop
    \/ ENGTimeoutWake
    \/ ENGTimeoutTickQuiet
    \/ ENGCleanupLoop
    \/ ENGCleanupWake
    \/ ENGCleanupTick

SpecWORK == Init /\ [][NextWORK]_vars

\* a thread that can take a step takes one: a sleep ends, a loop head is evaluated
SpecWORKFair ==
    /\ SpecWORK
    /\ WF_vars(ENGTimeoutLoop) /\ WF_vars(ENGTimeoutWake) /\ WF_vars(ENGTimeoutTickQuiet)
    /\ WF_vars(ENGCleanupLoop) /\ WF_vars(ENGCleanupWake) /\ WF_vars(ENGCleanupTick)

\* the stream worker alone feeding the sink, and the owner of the engine pulling
NextPULL ==
    \/ ENGStart
    \/ ENGStreamRead
    \/ ENGDispatch
    \/ ENGAddPut
    \/ ENGAddRead
    \/ ENGAddWrite
    \/ ENGAddAppend
    \/ ENGAddSave
    \/ ENGGetAlerts
    \/ ENGGetAllAlerts
    \/ ENGStatus
    \/ ENGExport
    \/ ENGGenerateOutput

SpecPULL == Init /\ [][NextPULL]_vars

\* the stream worker hands one queue event to the engine
DQDispatch ==
    /\ events_processed < MaxQueueDispatches
    /\ \E e \in DispatchQueueEvents : ENG_process_queue_event(e)
    /\ UNCHANGED <<now, saVars, invVars, wdVars, bsVars, soVars, shVars, swVars, ecVars, ctVars, lcVars, cpVars, sc_events>>
    /\ UNCHANGED <<running, stream_running, started, alert_queue, saved_events,
                   alerts_generated, events_file, export_file, pc, cur, tmp, tick_state,
                   put_log, pulled, escaped, late, queued_at_stop, eng_last>>

NextDQ == DQDispatch

SpecDQ == Init /\ [][NextDQ]_vars

SWSweepBegin ==
    /\ \E t \in SweepClock : t > now /\ SW_sweep_begin(t)
    /\ UNCHANGED <<sa_phase, sa_count, sa_exit>>
    /\ UNCHANGED <<scVars, invVars, wdVars, bsVars, qmVars, soVars, shVars, engVars, dqVars, ecVars, ctVars, lcVars, cpVars>>

SWSweepNext ==
    /\ SW_sweep_next
    /\ UNCHANGED <<sa_phase, sa_count, sa_exit>>
    /\ UNCHANGED <<scVars, invVars, wdVars, bsVars, qmVars, soVars, shVars, engVars, dqVars, ecVars, ctVars, lcVars, cpVars>>

SWSweepReturn ==
    /\ SW_sweep_return
    /\ UNCHANGED <<sa_phase, sa_count, sa_exit>>
    /\ UNCHANGED <<scVars, invVars, wdVars, bsVars, qmVars, soVars, shVars, engVars, dqVars, ecVars, ctVars, lcVars, cpVars>>

SWCleanupBegin ==
    /\ sw_clean.runs < MaxCleanups
    /\ SW_cleanup_begin
    /\ UNCHANGED <<sa_phase, sa_count, sa_exit>>
    /\ UNCHANGED <<scVars, invVars, wdVars, bsVars, qmVars, soVars, shVars, engVars, dqVars, ecVars, ctVars, lcVars, cpVars>>

SWCleanupVisit ==
    /\ SW_cleanup_visit
    /\ UNCHANGED <<sa_phase, sa_count, sa_exit>>
    /\ UNCHANGED <<scVars, invVars, wdVars, bsVars, qmVars, soVars, shVars, engVars, dqVars, ecVars, ctVars, lcVars, cpVars>>

SWRfid ==
    /\ sw_reads < MaxSweepReads
    /\ \E e \in RfidEvents : SW_process_rfid_event(e.station_id, e.sku, e.location, e.timestamp)
    /\ UNCHANGED <<sa_phase, sa_count, sa_exit>>
    /\ UNCHANGED <<scVars, invVars, wdVars, bsVars, qmVars, soVars, shVars, engVars, dqVars, ecVars, ctVars, lcVars, cpVars>>

NextSW ==
    \/ SWSweepBegin
    \/ SWSweepNext
    \/ SWSweepReturn
    \/ SWCleanupBegin
    \/ SWCleanupVisit
    \/ SWRfid

SpecSW == Init /\ [][NextSW]_vars

\* the timeout worker, once in a sweep, keeps taking steps
SpecSWFair == SpecSW /\ WF_vars(SWSweepNext) /\ WF_vars(SWSweepReturn)

\* the events the indices hold
Entries(s) == {s[i] : i \in 1..Len(s)}

IndexedEvents ==
    UNION {Entries(events_by_station[st]) : st \in CorrelatorStations}
    \cup UNION {Entries(events_by_customer[c]) : c \in CorrelatorCustomers}

ECAdd ==
    /\ ec_serial < MaxCorrelatorAdds
    /\ \E e \in CorrelatorEvents : EC_add_event(e)
    /\ UNCHANGED <<now, saVars, scVars, invVars, wdVars, bsVars, qmVars, soVars, shVars, engVars, dqVars, swVars, ctVars, lcVars, cpVars>>

\* a caller asks about an event it added: with the dict it passed to add_event, or with
\* the stored dict an earlier query handed out
ECFind ==
    /\ \E st \in CorrelatorStations : \E i \in 1..Len(events_by_station[st]) :
       \E f \in DatasetFilters :
            LET x == events_by_station[st][i]
            IN  \E ref \in {x, AsPassed(x)} : EC_find_related_events(x, ref, f)
    /\ UNCHANGED <<now, saVars, scVars, invVars, wdVars, bsVars, qmVars, soVars, shVars, engVars, dqVars, swVars, ctVars, lcVars, cpVars>>

\* the cleanup worker's tick at a later instant
ECCleanup ==
    /\ \E t \in CorrelatorClock : t > now /\ now' = t /\ EC_cleanup_old_events(t)
    /\ UNCHANGED <<saVars, scVars, invVars, wdVars, bsVars, qmVars, soVars, shVars, engVars, dqVars, swVars, ctVars, lcVars, cpVars>>

\* the indices under add_event and the cleanup worker
NextEC ==
    \/ ECAdd
    \/ ECCleanup

SpecEC == Init /\ [][NextEC]_vars

\* the indices under add_event and queries
NextFIND ==
    \/ ECAdd
    \/ ECFind

SpecFIND == Init /\ [][NextFIND]_vars

\* the events of one station's streams, well-formed and malformed
ThreadedEvents == {e \in CorrelatorEvents : e.station_id # "SCC2"}

CTAddCall ==
    /\ ec_serial < MaxThreadedAdds
    /\ \E e \in ThreadedEvents : CT_add_call(e)
    /\ UNCHANGED <<saVars, scVars, invVars, wdVars, bsVars, qmVars, soVars, shVars, engVars, dqVars, swVars, lcVars, cpVars>>

\* a query about a stored event, with the stored dict
CTFindCall ==
    /\ \E st \in CorrelatorStations : \E i \in 1..Len(events_by_station[st]) :
       \E f \in DatasetFilters : CT_find_call(events_by_station[st][i], f)
    /\ UNCHANGED <<saVars, scVars, invVars, wdVars, bsVars, qmVars, soVars, shVars, engVars, dqVars, swVars, lcVars, cpVars>>

CTIngestStep ==
    /\ \/ CT_ingest_enter
       \/ CT_add_station
       \/ CT_add_customer
       \/ CT_find_station
       \/ CT_find_customer
       \/ CT_ingest_leave
    /\ UNCHANGED <<saVars, scVars, invVars, wdVars, bsVars, qmVars, soVars, shVars, engVars, dqVars, swVars, lcVars, cpVars>>

CTCleanupCall ==
    /\ CT_cleanup_call
    /\ UNCHANGED <<saVars, scVars, invVars, wdVars, bsVars, qmVars, soVars, shVars, engVars, dqVars, swVars, lcVars, cpVars>>

CTCleanupEnter ==
    /\ \E t \in CorrelatorClock : t > now /\ now' = t /\ CT_cleanup_enter(t)
    /\ UNCHANGED <<saVars, scVars, invVars, wdVars, bsVars, qmVars, soVars, shVars, engVars, dqVars, swVars, lcVars, cpVars>>

CTCleanupStep ==
    /\ \/ CT_cleanup_station
       \/ CT_cleanup_customer
       \/ CT_cleanup_leave
    /\ UNCHANGED <<saVars, scVars, invVars, wdVars, bsVars, qmVars, soVars, shVars, engVars, dqVars, swVars, lcVars, cpVars>>

NextCT ==
    \/ CTAddCall
    \/ CTFindCall
    \/ CTIngestStep
    \/ CTCleanupCall
    \/ CTCleanupEnter
    \/ CTCleanupStep

SpecCT == Init /\ [][NextCT]_vars

LCStart ==
    /\ LC_start
    /\ UNCHANGED engineRest
    /\ UNCHANGED <<now, saVars, scVars, invVars, wdVars, bsVars, qmVars, soVars, shVars, dqVars, swVars, ecVars, ctVars, cpVars>>

LCStop ==
    /\ LC_stop
    /\ UNCHANGED engineRest
    /\ UNCHANGED <<now, saVars, scVars, invVars, wdVars, bsVars, qmVars, soVars, shVars, dqVars, swVars, ecVars, ctVars, cpVars>>

LCWorkerLoop ==
    /\ \E i \in WorkerThreads : LC_worker_loop(i)
    /\ UNCHANGED engineRest
    /\ UNCHANGED <<now, saVars, scVars, invVars, wdVars, bsVars, qmVars, soVars, shVars, dqVars, swVars, ecVars, ctVars, cpVars>>

LCWorkerWake ==
    /\ \E i \in WorkerThreads : LC_worker_wake(i)
    /\ UNCHANGED engineRest
    /\ UNCHANGED <<now, saVars, scVars, invVars, wdVars, bsVars, qmVars, soVars, shVars, dqVars, swVars, ecVars, ctVars, cpVars>>

LCWorkerTick ==
    /\ \E i \in WorkerThreads : \E raised \in BOOLEAN : LC_worker_tick(i, raised)
    /\ UNCHANGED engineRest
    /\ UNCHANGED <<now, saVars, scVars, invVars, wdVars, bsVars, qmVars, soVars, shVars, dqVars, swVars, ecVars, ctVars, cpVars>>

NextLC ==
    \/ LCStart
    \/ LCStop
    \/ LCWorkerLoop
    \/ LCWorkerWake
    \/ LCWorkerTick

SpecLC == Init /\ [][NextLC]_vars

\* every worker thread that can take a step takes one
SpecLCFair ==
    /\ SpecLC
    /\ \A i \in WorkerThreads :
            /\ WF_vars(LCWorkerLoop /\ lc_workers'[i] # lc_workers[i])
            /\ WF_vars(LCWorkerWake /\ lc_workers'[i] # lc_workers[i])
            /\ WF_vars(LCWorkerTick /\ lc_workers'[i] # lc_workers[i])

CPPut ==
    /\ CP_put
    /\ UNCHANGED pullRest
    /\ UNCHANGED <<now, saVars, scVars, invVars, wdVars, bsVars, qmVars, soVars, shVars, dqVars, swVars, ecVars, ctVars, lcVars>>

CPCall ==
    /\ \E c \in Consumers :
            \/ \E max_alerts \in PullSizes : CP_call(c, "get_alerts", max_alerts)
            \/ CP_call(c, "get_all_alerts", 0)
    /\ UNCHANGED pullRest
    /\ UNCHANGED <<now, saVars, scVars, invVars, wdVars, bsVars, qmVars, soVars, shVars, dqVars, swVars, ecVars, ctVars, lcVars>>

CPCheck ==
    /\ \E c \in Consumers : CP_check(c)
    /\ UNCHANGED pullRest
    /\ UNCHANGED <<now, saVars, scVars, invVars, wdVars, bsVars, qmVars, soVars, shVars, dqVars, swVars, ecVars, ctVars, lcVars>>

CPGet ==
    /\ \E c \in Consumers : CP_get(c)
    /\ UNCHANGED pullRest
    /\ UNCHANGED <<now, saVars, scVars, invVars, wdVars, bsVars, qmVars, soVars, shVars, dqVars, swVars, ecVars, ctVars, lcVars>>

NextCP ==
    \/ CPPut
    \/ CPCall
    \/ CPCheck
    \/ CPGet

SpecCP == Init /\ [][NextCP]_vars

\* a consumer thread that can take a step takes one; the engine may stop producing alerts
SpecCPFair ==
    /\ SpecCP
    /\ \A c \in Consumers :
            /\ WF_vars(CPCheck /\ cp_pc'[c] # cp_pc[c])
            /\ WF_vars(CPGet /\ cp_pc'[c] # cp_pc[c])

(***************************************************************************)
(* Claims about ScanAvoidanceDetector                                      *)
(***************************************************************************)

\* C1: a presence that was entered (IN_SCAN_AREA) and then left (OUT_OF_AREA), with
\* no POS scan of the sku at the station in between, has exactly one Scanner
\* Avoidance alert over the whole run, exit alerts and TIMEOUT alerts counted
\* together, and the alert's severity is HIGH iff the dwell exceeds 30 s.
C1_ExactlyOneAlertPerUnscannedPresence ==
    \A st \in Stations, k \in Skus :
        sa_phase[st][k] = "exited" =>
            /\ sa_count[st][k] = 1
            /\ (sa_exit[st][k].severity = "HIGH") <=> (sa_exit[st][k].dwell > HighDwell)

\* C2: a presence whose sku was scanned at the station after the IN_SCAN_AREA read
\* has no Scanner Avoidance alert, neither from the exit read nor from a later sweep.
C2_NoAlertForScannedPresence ==
    \A st \in Stations, k \in Skus :
        sa_phase[st][k] \in {"scanned", "scannedExited"} => sa_count[st][k] = 0

\* C2: the item was read in, scanned, read out, and a sweep ran afterwards
C2_Witness ==
    \E st \in Stations, k \in Skus :
        /\ sa_phase[st][k] = "scannedExited"
        /\ now > 0

(***************************************************************************)
(* Claims about SystemCrashDetector                                        *)
(***************************************************************************)

\* C3: in every state reachable by process_station_event calls and
\* check_station_timeouts sweeps, each station has at most one open crash
\* period: the periods opened and not yet closed number at most one, and they
\* number one exactly when the station has an entry in active_crashes.
C3_AtMostOneOpenCrashPeriod ==
    \A st \in Stations :
        /\ sc_open[st] \in {0, 1}
        /\ (sc_open[st] = 1) <=> (active_crashes[st] # NoCrash)

\* a station whose crash period is open has just reported another error status
C3_Witness ==
    /\ sc_last.op = "event"
    /\ Present(sc_last.station_id)
    /\ StationEventWellFormed(sc_last.station_id, sc_last.timestamp)
    /\ sc_last.status \in ErrorStatuses
    /\ sc_last.had_open
    /\ sc_open[sc_last.station_id] = 1
    /\ now > 0

\* the last call was a well-formed Active report of a station whose previous
\* status report was Error, and that Error report opened the crash period
C4_ErrorThenActive ==
    /\ sc_last.op = "event"
    /\ Present(sc_last.station_id)
    /\ StationEventWellFormed(sc_last.station_id, sc_last.timestamp)
    /\ sc_last.status = "Active"
    /\ sc_last.prev.status = "Error"
    /\ sc_last.prev.opened

\* C4: a station that reports Error at t0 (no crash period open before) and
\* then Active at t1, with no other status report in between, produces exactly
\* one Unexpected Systems Crash alert iff t1 - t0 >= min_crash_duration; the
\* alert carries duration_seconds = t1 - t0 and severity HIGH iff the duration
\* exceeds 300 s, MEDIUM otherwise; a shorter outage closes the period with no
\* alert and appends nothing to crash_periods.  Timestamps are whole seconds.
C4_RecoveryAlertIffLongEnough ==
    C4_ErrorThenActive =>
        LET st == sc_last.station_id
            t0 == sc_last.prev.timestamp
            t1 == sc_last.timestamp
        IN  /\ active_crashes[st] = NoCrash
            /\ sc_open[st] = 0
            /\ IF t1 - t0 >= MinCrashDuration
               THEN /\ Cardinality(sc_last.alerts) = 1
                    /\ \A a \in sc_last.alerts :
                        /\ a.event_name = "Unexpected Systems Crash"
                        /\ a.station_id = st
                        /\ a.duration_seconds = t1 - t0
                        /\ a.severity = (IF t1 - t0 > 300 THEN "HIGH" ELSE "MEDIUM")
                    /\ sc_last.recorded = 1
               ELSE /\ sc_last.alerts = {}
                    /\ sc_last.recorded = 0

\* an outage of exactly min_crash_duration has just been closed with an alert
C4_Witness ==
    /\ C4_ErrorThenActive
    /\ sc_last.timestamp - sc_last.prev.timestamp = MinCrashDuration
    /\ sc_last.alerts # {}

\* as C4_Witness, for an outage shorter than min_crash_duration (no alert)
C4_WitnessShort ==
    /\ C4_ErrorThenActive
    /\ sc_last.timestamp - sc_last.prev.timestamp < MinCrashDuration
    /\ sc_last.alerts = {}

\* as C4_Witness, for an outage longer than 300 s (severity HIGH)
C4_WitnessHigh ==
    /\ C4_ErrorThenActive
    /\ \E a \in sc_last.alerts : a.severity = "HIGH"

(***************************************************************************)
(* Claims about InventoryDiscrepancyDetector                               *)
(***************************************************************************)

\* the SKUs of the last snapshot whose tally exceeds the recorded count by at
\* least the threshold percentage
SnapshotOverages ==
    {k \in Skus : /\ inv_last.data[k] # NoCount
                  /\ rfid_tally[k] > inv_last.data[k]
                  /\ ReachesThreshold(inv_last.data[k], rfid_tally[k])}

\* C5: after at least min_rfid_events_for_baseline (20) IN_SCAN_AREA reads of a
\* SKU, a well-formed snapshot that records a smaller count for it (small enough
\* to reach the threshold, as 10 against 20 or more) completes without error and
\* returns exactly one Inventory Discrepancy alert for the SKU, with
\* Actual_Inventory the tally, Expected_Inventory the recorded count and
\* discrepancy_type OVERAGE.
C5_SnapshotAfterWarmUpAlerts ==
    \A k \in Skus :
        (/\ inv_last.op = "snapshot"
         /\ Parses(inv_last.timestamp)
         /\ rfid_tally[k] >= MinRfidEventsForBaseline
         /\ k \in SnapshotOverages)
        => /\ inv_last.result = "returned"
           /\ Cardinality({a \in inv_last.alerts : a.SKU = k}) = 1
           /\ \A a \in inv_last.alerts :
                a.SKU = k => /\ a.Actual_Inventory = rfid_tally[k]
                             /\ a.Expected_Inventory = inv_last.data[k]
                             /\ a.discrepancy_type = "OVERAGE"

(***************************************************************************)
(* Claims about WeightDiscrepancyDetector                                  *)
(***************************************************************************)

\* the last call was a POS transaction whose SKU is in the catalog with a
\* non-zero expected weight and which carries an actual weight
C7_Weighed ==
    /\ wd_last.op = "pos"
    /\ Present(wd_last.sku)
    /\ wd_last.expected > 0
    /\ wd_last.weight_g # NoWeight

\* the alert the weight check owes: one iff |actual - expected| * 100 >
\* tolerance * expected, HIGH iff the percentage exceeds 50 and MEDIUM otherwise
C7_AlertIffOverTolerance ==
    LET deviation == Abs(wd_last.weight_g - wd_last.expected) * 100
    IN  /\ (wd_last.alerts # {}) <=> (deviation > TolerancePercentage * wd_last.expected)
        /\ Cardinality(wd_last.alerts) <= 1
        /\ \A a \in wd_last.alerts :
                a.severity = (IF deviation > HighPercentage * wd_last.expected
                              THEN "HIGH" ELSE "MEDIUM")

C7_WitnessHigh ==
    /\ C7_Weighed
    /\ wd_last.expected = 100
    /\ wd_last.weight_g = 151
    /\ \E a \in wd_last.alerts : a.severity = "HIGH"

\* a well-formed transaction just over the tolerance produced a MEDIUM alert
C7_WitnessMedium ==
    /\ C7_Weighed
    /\ wd_last.expected = 100
    /\ wd_last.weight_g = 111
    /\ \E a \in wd_last.alerts : a.severity = "MEDIUM"

(***************************************************************************)
(* Claims about BarcodeSwitchingDetector                                   *)
(***************************************************************************)

\* the last call was a POS scan that was correlated with a recognition
C8_Correlated ==
    /\ bs_last.op = "pos"
    /\ bs_last.latest # NoRecognition

\* predicted and scanned SKU differ, both are in the catalog, and the predicted
\* price exceeds the scanned price by at least min_price_difference
C8_UnderRung ==
    LET predicted == bs_last.latest.predicted_sku
    IN  /\ predicted # bs_last.sku
        /\ price_catalog[predicted] # NotInCatalog
        /\ price_catalog[bs_last.sku] # NotInCatalog
        /\ price_catalog[predicted] - price_catalog[bs_last.sku] >= MinPriceDifference

\* at most one alert, carrying the price difference and severity HIGH iff the
\* difference exceeds 200
C8_AlertContent ==
    LET difference == price_catalog[bs_last.latest.predicted_sku] - price_catalog[bs_last.sku]
    IN  /\ Cardinality(bs_last.alerts) <= 1
        /\ \A a \in bs_last.alerts :
                /\ a.event_name = "Barcode Switching"
                /\ a.price_difference = difference
                /\ a.severity = (IF difference > HighPriceDifference THEN "HIGH" ELSE "MEDIUM")

\* C8 as stated: when a POS scan is correlated with a recognition at the same
\* station, a Barcode Switching alert is produced iff the predicted SKU differs
\* from the scanned one, both are in the catalog and predicted_price -
\* scanned_price >= min_price_difference; the alert carries that difference and
\* is HIGH iff it exceeds 200 (so over-ringing never alerts).
C8_AlertIffUnderRung ==
    C8_Correlated =>
        /\ (bs_last.alerts # {}) <=> C8_UnderRung
        /\ C8_AlertContent

\* C8 amended: the same, with one more condition for the alert: no alert was
\* produced before for the same station, predicted SKU, scanned SKU and POS
\* timestamp.
C8_AlertIffUnderRungAndNew ==
    C8_Correlated =>
        /\ (bs_last.alerts # {}) <=> (C8_UnderRung /\ bs_last.fresh)
        /\ C8_AlertContent

\* the scenario: A (500) recognised at t0, B (100) scanned at t0 + 15 s, one
\* alert with price_difference 400 and severity HIGH
C8_Witness ==
    /\ C8_Correlated
    /\ bs_last.latest.predicted_sku = "A"
    /\ bs_last.sku = "B"
    /\ bs_last.timestamp = bs_last.latest.timestamp + 15
    /\ \E a \in bs_last.alerts : a.price_difference = 400 /\ a.severity = "HIGH"

\* over-ringing: B (100) recognised, A (500) scanned, no alert
C8_WitnessOverRung ==
    /\ C8_Correlated
    /\ bs_last.latest.predicted_sku = "B"
    /\ bs_last.sku = "A"
    /\ price_catalog["A"] = 500 /\ price_catalog["B"] = 100
    /\ bs_last.alerts = {}

\* the same under-rung scan processed a second time: no second alert
C8_WitnessRepeat ==
    /\ C8_Correlated
    /\ C8_UnderRung
    /\ ~bs_last.fresh
    /\ bs_last.alerts = {}

(***************************************************************************)
(* Claims about QueueMonitor                                               *)
(***************************************************************************)
AlertsNamed(alerts, name) == SelectSeq(alerts, LAMBDA a : a.event_name = name)

\* the last call was a queue snapshot with a station, a timestamp that parses, a
\* customer_count and an average_dwell_time
C9_FullSnapshot ==
    /\ qm_last.op = "queue"
    /\ QueueEventWellFormed(qm_last.station_id, qm_last.customer_count, qm_last.timestamp)
    /\ qm_last.average_dwell_time # NoDwell

\* C9: a queue snapshot with a station, a timestamp, a customer_count and an
\* average_dwell_time returns exactly one Long Queue Length alert iff customer_count >=
\* long_queue_threshold (none otherwise), HIGH iff customer_count >= 2 * threshold and
\* MEDIUM otherwise, and exactly one Long Wait Time alert iff average_dwell_time >= the
\* wait threshold (none otherwise), HIGH iff the dwell time exceeds 600 s and MEDIUM
\* otherwise; so {customer_count 6, average_dwell_time 250} returns one MEDIUM Long
\* Queue Length alert and no Long Wait Time alert.
C9_LongQueueAndLongWait ==
    C9_FullSnapshot =>
        LET lq == AlertsNamed(qm_last.alerts, "Long Queue Length")
            lw == AlertsNamed(qm_last.alerts, "Long Wait Time")
        IN  /\ qm_last.result = "returned"
            /\ Len(lq) = (IF qm_last.customer_count >= LongQueueThreshold THEN 1 ELSE 0)
            /\ \A i \in 1..Len(lq) :
                    /\ lq[i].num_of_customers = qm_last.customer_count
                    /\ lq[i].station_id = qm_last.station_id
                    /\ lq[i].severity = "HIGH"
                            <=> qm_last.customer_count >= 2 * LongQueueThreshold
                    /\ lq[i].severity \in {"HIGH", "MEDIUM"}
            /\ Len(lw) = (IF qm_last.average_dwell_time >= LongWaitThreshold THEN 1 ELSE 0)
            /\ \A i \in 1..Len(lw) :
                    /\ lw[i].wait_time_seconds = qm_last.average_dwell_time
                    /\ lw[i].severity = "HIGH" <=> qm_last.average_dwell_time > HighWait
                    /\ lw[i].severity \in {"HIGH", "MEDIUM"}
            /\ (qm_last.customer_count = 6 /\ qm_last.average_dwell_time = 250)
                    => /\ Len(lq) = 1 /\ lq[1].severity = "MEDIUM"
                       /\ Len(lw) = 0

\* the scenario of the specification: six customers, 250 s, one MEDIUM Long Queue Length
C9_Witness ==
    /\ C9_FullSnapshot
    /\ qm_last.customer_count = 6
    /\ qm_last.average_dwell_time = 250
    /\ Len(AlertsNamed(qm_last.alerts, "Long Queue Length")) = 1
    /\ AlertsNamed(qm_last.alerts, "Long Queue Length")[1].severity = "MEDIUM"
    /\ AlertsNamed(qm_last.alerts, "Long Wait Time") = <<>>

\* both alerts at HIGH in one snapshot
C9_WitnessBothHigh ==
    /\ C9_FullSnapshot
    /\ qm_last.customer_count = 10
    /\ qm_last.average_dwell_time = 601
    /\ Len(AlertsNamed(qm_last.alerts, "Long Queue Length")) = 1
    /\ AlertsNamed(qm_last.alerts, "Long Queue Length")[1].severity = "HIGH"
    /\ Len(AlertsNamed(qm_last.alerts, "Long Wait Time")) = 1
    /\ AlertsNamed(qm_last.alerts, "Long Wait Time")[1].severity = "HIGH"

\* neither alert: a short queue with a short wait
C9_WitnessNeither ==
    /\ C9_FullSnapshot
    /\ qm_last.customer_count = 3
    /\ qm_last.average_dwell_time = 299
    /\ qm_last.result = "returned"
    /\ AlertsNamed(qm_last.alerts, "Long Queue Length") = <<>>
    /\ AlertsNamed(qm_last.alerts, "Long Wait Time") = <<>>

(***************************************************************************)
(* Claims about SuccessOperationDetector                                   *)
(***************************************************************************)
\* the last POS event has a station_id, a parseable timestamp, status "Active", a
\* customer_id and a sku
C10_Eligible == FedEligible(so_last.event)

C10_WitnessIneligible ==
    /\ so_last.op = "pos"
    /\ EventData(so_last.event).status = "Inactive"
    /\ EventData(so_last.event).station_id # None
    /\ so_last.alerts = <<>>
    /\ Len(successful_transactions) = 2
    /\ successful_transactions = so_last.ledger_before

(***************************************************************************)
(* Claims about the event shapes                                           *)
(***************************************************************************)
\* C11: feeding an event in the flat shape gives the same alerts and the same change of
\* the detector's state as feeding the same event in the wrapped shape, for every
\* detector that reads station_id, timestamp or data from the event.
C11_FlatSameAsWrapped ==
    sh_last.detector # "none" =>
        /\ sh_last.alerts = sh_last.twin.alerts
        /\ sh_last.state = sh_last.twin.state

\* the same statement for the one detector here that reads both shapes
C11_DualReaderSameInBothShapes ==
    sh_last.detector = "SuccessOperation" =>
        /\ sh_last.alerts = sh_last.twin.alerts
        /\ sh_last.state = sh_last.twin.state

\* a flat station event is ignored where its wrapped twin is recorded as activity
C11_FlatIgnored ==
    /\ sh_last.detector = "SystemCrash"
    /\ "event" \notin DOMAIN sh_last.event
    /\ StationEventWellFormed(sh_last.event.station_id, sh_last.event.timestamp)
    /\ sh_last.state # sh_last.twin.state

(***************************************************************************)
(* Claims about DetectionEngine                                            *)
(***************************************************************************)
InSeq(a, s) == \E i \in 1..Len(s) : s[i] = a
Min(a, b) == IF a <= b THEN a ELSE b

\* the alerts whose _add_alert call has returned
Added == {a \in 1..MaxAlerts : a < NextAlertId /\ \A t \in Threads : cur[t] # a}

\* no thread is inside _add_alert
SinkQuiet == \A t \in Threads : cur[t] = NoAlert

\* C13: every alert handed to _add_alert is both put on the pull queue and appended to
\* the persisted list, and in every state reachable under interleavings of the stream
\* worker and the timeout worker the counter alerts_generated equals the number of
\* alerts in the persisted list and the number of alerts ever queued (compared whenever
\* no thread is in the middle of _add_alert).
C13_CounterMatchesSink ==
    /\ \A a \in Added : InSeq(a, put_log) /\ InSeq(a, saved_events)
    /\ SinkQuiet => /\ alerts_generated = Len(saved_events)
                    /\ alerts_generated = Len(put_log)

\* the first half of C13 alone
C13_AddedAlertsQueuedAndListed ==
    \A a \in Added : InSeq(a, put_log) /\ InSeq(a, saved_events)

\* two _add_alert calls have returned and the counter stands at one
C13_LostUpdate ==
    /\ SinkQuiet
    /\ Len(saved_events) = 2
    /\ Len(put_log) = 2
    /\ alerts_generated = 1

\* the last call was a pull
C14_Pulled == eng_last.op \in {"get_alerts", "get_all_alerts", "export_events_jsonl", "generate_output"}

\* C14: get_alerts(N) returns the min(N, pending) oldest queued alerts in the order they
\* were added and removes exactly those; get_all_alerts returns all pending alerts in
\* order and leaves the queue empty; across any sequence of pulls each alert is returned
\* exactly once; pending_alerts in the status snapshot is alerts added minus alerts
\* pulled; and a pull changes neither the persisted list nor alerts_generated.
C14_PullsReturnOldestOnce ==
    /\ pulled \o alert_queue = put_log
    /\ \A i, j \in 1..Len(pulled) : pulled[i] = pulled[j] => i = j
    /\ eng_last.op = "get_alerts" =>
            LET k == Min(eng_last.n, Len(eng_last.queue_before))
            IN  /\ eng_last.returned = SubSeq(eng_last.queue_before, 1, k)
                /\ eng_last.queue_after
                        = SubSeq(eng_last.queue_before, k + 1, Len(eng_last.queue_before))
    /\ eng_last.op = "get_all_alerts" =>
            /\ eng_last.returned = eng_last.queue_before
            /\ eng_last.queue_after = <<>>
    /\ eng_last.op = "get_system_status" => eng_last.n = eng_last.puts - eng_last.pulls
    /\ C14_Pulled =>
            /\ eng_last.saved_after = eng_last.saved_before
            /\ eng_last.counter_after = eng_last.counter_before

\* get_alerts(1) on a queue of two: the older one is returned, the newer one stays
C14_Witness ==
    /\ eng_last.op = "get_alerts"
    /\ eng_last.n = 1
    /\ eng_last.queue_before = <<1, 2>>
    /\ eng_last.returned = <<1>>
    /\ eng_last.queue_after = <<2>>

\* C15: the on-demand newline-delimited export holds every alert generated so far, the
\* same alerts as the persisted list, whatever pulls came before it, also when
\* generate_output calls get_all_alerts first.
C15_ExportHoldsEveryAlert ==
    eng_last.op \in {"export_events_jsonl", "generate_output"} =>
        export_file.content = eng_last.saved_before

\* generate_output with two alerts pending and persisted writes an empty export
C15_EmptyExport ==
    /\ eng_last.op = "generate_output"
    /\ eng_last.saved_before = <<1, 2>>
    /\ eng_last.returned = <<1, 2>>
    /\ export_file.content = <<>>

\* stop() has returned
Stopped == started /\ ~running

\* C16: once stop() has returned, neither periodic task begins another sweep, the
\* stream worker dispatches no further event, and every alert that was queued before
\* stop is in the persisted list.
C16_NothingAfterStop ==
    /\ late = {}
    /\ Stopped => \A i \in 1..Len(queued_at_stop) : InSeq(queued_at_stop[i], saved_events)

\* the timeout worker, asleep when stop() returned, wakes up and sweeps
C16_LateSweep == Stopped /\ "timeout" \in late

\* an event read before stop() is dispatched after it
C16_LateDispatch == Stopped /\ "ingest" \in late

\* stop() returns between the put and the append of an alert
C16_QueuedNotPersisted ==
    /\ Stopped
    /\ \E i \in 1..Len(queued_at_stop) : ~InSeq(queued_at_stop[i], saved_events)

\* C19: an exception raised inside one tick of the cleanup task or of the timeout task
\* does not end the task: while the engine stays running, the task begins its next tick
\* after the failing one.
C19_NextTickAfterFailure ==
    \A w \in Workers :
        (tick_state[w] = "failed") ~> (tick_state[w] = "ticked_again" \/ ~running)

\* the same as a property of states: after a tick that raised the worker is back in its
\* loop, and a worker has left its loop only when the engine was not running
C19_FailedWorkerStaysInLoop ==
    \A w \in Workers :
        /\ (tick_state[w] = "failed" /\ running) => pc[w] \in {"loop", "sleep"}
        /\ pc[w] = "done" => ~running

\* both workers have begun a tick after a tick that raised, the engine still running
C19_Witness ==
    /\ running
    /\ \A w \in Workers : tick_state[w] = "ticked_again" /\ pc[w] = "tick"

\* the last write of the persisted file failed
C20_SaveFailed == events_file.state \in {"torn", "stale"}

\* C20: when writing the persisted file fails, _add_alert still completes: the alert is
\* on the pull queue and in the in-memory list, alerts_generated has been incremented, no
\* exception leaves _add_alert, and the thread goes on to later events.
C20_FailedSaveKeepsAlert ==
    /\ ~escaped
    /\ C20_SaveFailed =>
            /\ InSeq(events_file.last, alert_queue)
            /\ InSeq(events_file.last, saved_events)
            /\ alerts_generated >= 1
            /\ \A t \in Threads : cur[t] # events_file.last

\* the file write for alert 1 failed, and the second event has been dispatched since
C20_Witness ==
    /\ events_file.state = "torn"
    /\ events_file.last = 1
    /\ alert_queue = <<1>>
    /\ saved_events = <<1>>
    /\ alerts_generated = 1
    /\ events_processed = 2

(***************************************************************************)
(* Claims about the dispatch of one event to several detectors             *)
(***************************************************************************)
\* C12: when one detector raises while an event is dispatched, every other detector
\* subscribed to that stream kind is still invoked for the event, and the alerts it
\* returns reach the sink.
C12_OthersStillInvoked ==
    dq_last.raised # "none" =>
        /\ dq_last.invoked = QueueSubscribers
        /\ dq_last.due \subseteq dq_last.sunk.crash

\* the queue monitor raised on a snapshot that also ended a crash period: the crash
\* detector was not called and the System Crash alert it owed was never produced
C12_CrashDetectorSkipped ==
    /\ dq_last.raised = "queue_monitor"
    /\ "crash_detector" \notin dq_last.invoked
    /\ dq_last.due # {}
    /\ dq_last.sunk.crash = {}
    /\ active_crashes[dq_last.event.station_id] # NoCrash

\* when no detector raises, both detectors are invoked and their alerts reach the sink
C12_NoRaiseAllInvoked ==
    (dq_last.raised = "none" /\ dq_last.event # NoQueueEvent) =>
        /\ dq_last.invoked = QueueSubscribers
        /\ dq_last.sunk.crash = dq_last.due
        /\ dq_last.sunk.queue = qm_last.alerts

(***************************************************************************)
(* Claims about the detectors under concurrent callers                     *)
(***************************************************************************)
\* every alert a sweep can build
SweepAlerts ==
    {[ScanAvoidanceAlert(st, k, t, c - t) EXCEPT !.alert_type = "TIMEOUT"] :
        st \in Stations, k \in Skus, t \in SATimes, c \in SweepClock}

\* C17: whenever the timeout sweep expires a presence record (removes it and records its
\* dedupe key), a Scanner Avoidance alert for that record is eventually appended to the
\* sink, in every interleaving with ingestion and cleanup.
C17_ExpiredRecordAlerted ==
    \A a \in SweepAlerts : (a \in sw_expired) ~> (a \in sw_sunk)

\* a sweep removed a record, then raised; the worker is idle and the alert is not in the sink
C17_AlertLost ==
    /\ sw_pc["timeout"] = "idle"
    /\ \E a \in sw_expired : a \notin sw_sunk
    /\ <<"cleanup", "timeout">> \in sw_overlap

\* an alert lost by a sweep that raised is not made up for by any later step
C17_LostStaysLost ==
    [][\A a \in sw_expired \ sw_sunk : sw_pc["timeout"] = "idle" => a \notin sw_sunk']_vars

\* when nothing changed the records during a sweep, every expired record's alert is in the
\* sink once the worker is idle again
C17_UndisturbedSweepAlerts ==
    (sw_overlap = {} /\ sw_pc["timeout"] = "idle") => sw_expired \subseteq sw_sunk

\* C18: the records of a detector are never walked by one task while another appends to
\* or prunes them: the sweep's iteration, the cleanup's pruning and the ingestion
\* thread's changes of the presence records exclude one another.
C18_MutuallyExclusive ==
    /\ sw_overlap = {}
    /\ ~(sw_pc["timeout"] = "outer" /\ sw_pc["cleanup"] = "visit")

\* the stream worker stored a record while the sweep was inside its outer loop
C18_IngestDuringSweep == <<"ingest", "timeout">> \in sw_overlap

\* the cleanup removed a station entry while the sweep was inside its outer loop
C18_CleanupDuringSweep == <<"cleanup", "timeout">> \in sw_overlap

\* a station key without records is the only way a station is missing from the records
SW_KeysCoverRecords ==
    \A st \in Stations : st \notin sa_station_keys => StationEmpty(rfid_items_in_area, st)

(***************************************************************************)
(* Claims about EventCorrelator                                            *)
(***************************************************************************)
\* the last n entries of s
LastN(s, n) == [i \in 1..Min(n, Len(s)) |-> s[Len(s) - Min(n, Len(s)) + i]]

\* entries in the order they were added
InInsertionOrder(s) == \A i, j \in 1..Len(s) : i < j => s[i].id < s[j].id

C21_Malformed == ~PresentTs(ec_last.event.timestamp) \/ ~Parses(ec_last.event.timestamp)

C21_WitnessMalformed ==
    /\ ec_last.op = "add_event"
    /\ ec_last.event.timestamp = BadTs
    /\ events_by_station["SCC1"] # <<>>

\* the events the spec relates to the indexed event x: those held under x's station key or
\* under x's customer key, x left out, within the window, of the asked stream kinds
Related(x, dataset_types) ==
    {y \in IndexedEvents :
        /\ y.id # x.id
        /\ x.parsed_timestamp - CorrelationWindow <= y.parsed_timestamp
        /\ y.parsed_timestamp <= x.parsed_timestamp + CorrelationWindow
        /\ \/ /\ Present(x.station_id)
              /\ y.station_id = x.station_id
              /\ y \in Entries(events_by_station[x.station_id])
           \/ /\ Present(x.customer_id)
              /\ y.customer_id = x.customer_id
              /\ y \in Entries(events_by_customer[x.customer_id])
        /\ dataset_types # NoFilter => y.dataset \in dataset_types}

C22_AsSpecified ==
    LET r == ec_last.returned
    IN  /\ {r[i] : i \in 1..Len(r)} = Related(ec_last.event, ec_last.dataset_types)
        /\ \A i, j \in 1..Len(r) : i < j =>
                r[i] # r[j] /\ r[i].parsed_timestamp <= r[j].parsed_timestamp

\* C22: for a reference event that was added with add_event, find_related_events returns
\* exactly the indexed events other than the reference within +/- window_seconds of its
\* timestamp whose station or customer key equals the reference's, each once, sorted by
\* ascending timestamp, restricted to the given stream kinds when a filter is passed.
C22_FindReturnsRelatedEvents ==
    ec_last.op = "find_related_events" => C22_AsSpecified

\* the same, for a reference that is the stored dict itself
C22_StoredReferenceFindsRelated ==
    (ec_last.op = "find_related_events" /\ ec_last.ref.id # NotStored) => C22_AsSpecified

\* asked with the dict that was passed to add_event, find_related_events returns nothing
\* although another event of the same station lies within the window
C22_PassedEventFindsNothing ==
    /\ ec_last.op = "find_related_events"
    /\ ec_last.ref.id = NotStored
    /\ ec_last.returned = <<>>
    /\ Related(ec_last.event, NoFilter) # {}

\* a stored reference indexed under both keys: the other event, also under both, comes once
C22_WitnessDeduplicated ==
    /\ ec_last.op = "find_related_events"
    /\ ec_last.ref.id # NotStored
    /\ Len(ec_last.returned) = 1
    /\ ec_last.returned[1].station_id = ec_last.ref.station_id
    /\ ec_last.returned[1].customer_id = ec_last.ref.customer_id
    /\ Present(ec_last.ref.customer_id)

(***************************************************************************)
(* Claims about the presence records of ScanAvoidanceDetector              *)
(***************************************************************************)
\* the step is process_rfid_event for the well-formed read e of the given location, and
\* the record of e's (station, sku) is open before it
ReadOnOpenRecord(e, location) ==
    /\ RfidWellFormed(e.station_id, e.sku, e.location, e.timestamp)
    /\ e.location = location
    /\ HasItem(rfid_items_in_area, e.station_id, e.sku)
    /\ SA_process_rfid_event(e.station_id, e.sku, e.location, e.timestamp)

\* C23: after process_rfid_event handles an OUT_OF_AREA read for a (station, sku) that
\* has an open presence record, that record is no longer open, both when a Scanner
\* Avoidance alert is returned and when none is.
C23_ExitReadClosesRecord ==
    [][\A e \in RfidEvents :
            ReadOnOpenRecord(e, "OUT_OF_AREA") => ~HasItem(rfid_items_in_area', e.station_id, e.sku)
      ]_vars

\* the half of C23 the code keeps: an exit read that returns no alert closes the record
C23_QuietExitClosesRecord ==
    [][\A e \in RfidEvents :
            (ReadOnOpenRecord(e, "OUT_OF_AREA") /\ sa_last' = {})
                => ~HasItem(rfid_items_in_area', e.station_id, e.sku)
      ]_vars

\* an exit read has returned its alert and the record it was about is still open
C23_AlertedRecordStillOpen ==
    \E st \in Stations, k \in Skus :
        /\ sa_phase[st][k] = "exited"
        /\ HasItem(rfid_items_in_area, st, k)
        /\ \E a \in sa_last : a.station_id = st /\ a.product_sku = k /\ a.alert_type # "TIMEOUT"

\* C24: an OUT_SCAN_AREA read is an exit just like OUT_OF_AREA: for an open presence
\* record it returns an alert iff no POS scan of the sku lies between entry and exit, and
\* it moves the (station, sku) from PRESENT to ABSENT.
C24_OutScanAreaIsAnExit ==
    [][\A e \in RfidEvents :
            ReadOnOpenRecord(e, "OUT_SCAN_AREA") =>
                /\ ~HasItem(rfid_items_in_area', e.station_id, e.sku)
                /\ (sa_last' # {}) <=>
                        ~WasItemScanned(recent_scans[e.station_id], e.sku,
                                        rfid_items_in_area[e.station_id][e.sku], e.timestamp)
      ]_vars

\* what the code does with an OUT_SCAN_AREA read: nothing at all
C24_OutScanAreaIgnored ==
    [][\A e \in RfidEvents :
            ReadOnOpenRecord(e, "OUT_SCAN_AREA") =>
                /\ rfid_items_in_area' = rfid_items_in_area
                /\ sa_alerts_generated' = sa_alerts_generated
                /\ sa_last' = {}
      ]_vars

\* the records a sweep at current_time finds older than scan_timeout
OldRecords(current_time) ==
    {p \in Stations \X Skus :
        /\ HasItem(rfid_items_in_area, p[1], p[2])
        /\ current_time - rfid_items_in_area[p[1]][p[2]] > ScanTimeout}

\* C25: a check_timeout_alerts sweep returns exactly one alert tagged TIMEOUT for every
\* open presence record whose age at sweep time exceeds scan_timeout and removes that
\* record, leaves every younger record open and unalerted, and so returns nothing
\* further for a record a previous sweep expired; no RFID event is needed for it.
C25_SweepExpiresOldRecords ==
    [][now' # now =>
            /\ \A p \in Stations \X Skus :
                    IF p \in OldRecords(now')
                    THEN /\ ~HasItem(rfid_items_in_area', p[1], p[2])
                         /\ Cardinality({a \in sa_last' :
                                a.station_id = p[1] /\ a.product_sku = p[2]}) = 1
                    ELSE /\ rfid_items_in_area'[p[1]][p[2]] = rfid_items_in_area[p[1]][p[2]]
                         /\ \A a \in sa_last' : ~(a.station_id = p[1] /\ a.product_sku = p[2])
            /\ \A a \in sa_last' :
                    /\ a.alert_type = "TIMEOUT"
                    /\ a.event_name = "Scanner Avoidance"
                    /\ a.entry_time = rfid_items_in_area[a.station_id][a.product_sku]
                    /\ a.dwell_time_seconds = now' - a.entry_time
      ]_vars

\* a sweep has just expired a record: its TIMEOUT alert is returned, the record is gone
C25_Witness ==
    \E st \in Stations, k \in Skus :
        /\ sa_phase[st][k] = "expired"
        /\ ~HasItem(rfid_items_in_area, st, k)
        /\ \E a \in sa_last :
                /\ a.station_id = st /\ a.product_sku = k /\ a.alert_type = "TIMEOUT"
                /\ a.dwell_time_seconds = now - a.entry_time
                /\ a.dwell_time_seconds > ScanTimeout

\* a sweep has run past a record of exactly scan_timeout seconds and left it open
C25_WitnessYounger ==
    \E st \in Stations, k \in Skus :
        /\ HasItem(rfid_items_in_area, st, k)
        /\ now - rfid_items_in_area[st][k] = ScanTimeout
        /\ sa_phase[st][k] = "present"
        /\ sa_last = {}

\* C26: a presence record is created only when an IN_SCAN_AREA read arrives and no
\* record is open for that (station, sku): a repeated IN_SCAN_AREA read while the record
\* is open leaves the record's first-seen timestamp unchanged.
C26_RepeatedEntryKeepsFirstSeen ==
    [][\A e \in RfidEvents :
            ReadOnOpenRecord(e, "IN_SCAN_AREA") =>
                rfid_items_in_area'[e.station_id][e.sku] = rfid_items_in_area[e.station_id][e.sku]
      ]_vars

\* what the code does: the record takes the timestamp of the latest IN_SCAN_AREA read
C26_RepeatedEntryOverwrites ==
    [][\A e \in RfidEvents :
            ReadOnOpenRecord(e, "IN_SCAN_AREA") =>
                rfid_items_in_area'[e.station_id][e.sku] = e.timestamp
      ]_vars

\* records come from IN_SCAN_AREA reads only
C26_CreatedOnlyByEntry ==
    [][\A st \in Stations, k \in Skus :
            (~HasItem(rfid_items_in_area, st, k) /\ HasItem(rfid_items_in_area', st, k)) =>
                \E e \in RfidEvents :
                    /\ e.station_id = st /\ e.sku = k /\ e.location = "IN_SCAN_AREA"
                    /\ SA_process_rfid_event(e.station_id, e.sku, e.location, e.timestamp)
      ]_vars

(***************************************************************************)
(* Claims about the crash periods of SystemCrashDetector                   *)
(***************************************************************************)
\* the step is process_station_event for the well-formed event e, which reports Active
\* for a station whose previous status is one of `statuses`
ActiveReportAfter(e, statuses) ==
    /\ StationEventWellFormed(e.station_id, e.timestamp)
    /\ e.status = "Active"
    /\ station_status[e.station_id] \in statuses
    /\ SC_process_station_event(e.station_id, e.status, e.timestamp)

\* after the step no crash period is open for e's station, and the step returned an alert
\* iff the period that was open had lasted at least min_crash_duration
ClosedWithAlertIffLong(e) ==
    /\ active_crashes'[e.station_id] = NoCrash
    /\ active_crashes[e.station_id] # NoCrash =>
            ((sc_last'.alerts # {})
                <=> (e.timestamp - active_crashes[e.station_id].start_time >= MinCrashDuration))

\* C27: for each of the statuses Error, Offline and Maintenance: when a station whose
\* previous status is that status reports Active, its open crash period is closed (no
\* open crash period remains for the station after the event), with an alert iff the
\* duration is at least min_crash_duration.
C27_ActiveClosesCrashPeriod ==
    [][\A e \in StationEvents :
            ActiveReportAfter(e, ErrorStatuses) => ClosedWithAlertIffLong(e)
      ]_vars

\* C27 for Error and Offline alone
C27_ErrorOrOfflineThenActive ==
    [][\A e \in StationEvents :
            ActiveReportAfter(e, {"Error", "Offline"}) => ClosedWithAlertIffLong(e)
      ]_vars

\* a station in Maintenance has reported Active and its crash period is still open
C27_MaintenanceLeftOpen ==
    /\ sc_last.op = "event"
    /\ sc_last.status = "Active"
    /\ sc_last.prev.status = "Maintenance"
    /\ sc_last.had_open
    /\ StationEventWellFormed(sc_last.station_id, sc_last.timestamp)
    /\ active_crashes[sc_last.station_id] # NoCrash

\* C28: the synthetic crash period that check_station_timeouts opens for an inactive
\* station is closed within the same sweep: after the sweep returns, the station it
\* flagged has no open crash period.
C28_SyntheticPeriodClosedBySweep ==
    sc_last.op = "sweep" =>
        \A a \in sc_last.alerts : active_crashes[a.station_id] = NoCrash

\* a sweep has flagged a station and left the INACTIVE period open
C28_SyntheticPeriodLeftOpen ==
    /\ sc_last.op = "sweep"
    /\ \E a \in sc_last.alerts :
            /\ a.crash_type = "TIMEOUT"
            /\ active_crashes[a.station_id]
                    = [start_time |-> station_last_activity[a.station_id], status |-> "INACTIVE"]

\* C29: check_station_timeouts never returns an inactivity alert for a station that has
\* an open crash period at the time of the sweep, and leaves that station's open crash
\* period (start_time and status) unchanged.
C29_OpenCrashNotFlagged ==
    [][now' # now =>
            \A st \in Stations :
                active_crashes[st] # NoCrash =>
                    /\ active_crashes'[st] = active_crashes[st]
                    /\ \A a \in sc_last'.alerts : a.station_id # st
      ]_vars

\* a sweep has passed over a station silent for the whole inactivity timeout whose crash
\* period, opened by an error report, is open
C29_Witness ==
    /\ sc_last.op = "sweep"
    /\ sc_last.alerts = {}
    /\ \E st \in Stations :
            /\ active_crashes[st] # NoCrash
            /\ active_crashes[st].status \in ErrorStatuses
            /\ station_last_activity[st] # NoTs
            /\ now - station_last_activity[st] >= InactivityTimeout

\* C30: the inactivity sweep flags any station whose last_activity is older than
\* inactivity_timeout, every time that happens: a station that was flagged for
\* inactivity, then produced new events carrying no error status, and then fell silent
\* again for longer than inactivity_timeout is flagged again by a later sweep.
C30_FlaggedAgainAfterNewSilence ==
    [][now' # now =>
            \A st \in Stations :
                (/\ active_crashes[st] # NoCrash
                 /\ active_crashes[st].status = "INACTIVE"
                 /\ station_last_activity[st] > active_crashes[st].start_time
                 /\ station_status[st] \notin ErrorStatuses
                 /\ now' - station_last_activity[st] >= InactivityTimeout)
                    => \E a \in sc_last'.alerts : a.station_id = st
      ]_vars

\* a station without an open crash period is flagged by every sweep that finds it silent
\* for the inactivity timeout
C30_FirstSilenceFlagged ==
    [][now' # now =>
            \A st \in Stations :
                (/\ active_crashes[st] = NoCrash
                 /\ station_last_activity[st] # NoTs
                 /\ now' - station_last_activity[st] >= InactivityTimeout)
                    => \E a \in sc_last'.alerts :
                            a.station_id = st /\ a.error_type = "INACTIVITY_TIMEOUT"
      ]_vars

\* flagged once, active again, silent again: the second sweep returned nothing
C30_SecondSilenceUnflagged ==
    /\ sc_last.op = "sweep"
    /\ sc_last.alerts = {}
    /\ \E st \in Stations :
            /\ active_crashes[st] # NoCrash
            /\ active_crashes[st].status = "INACTIVE"
            /\ station_last_activity[st] > active_crashes[st].start_time
            /\ station_status[st] \notin ErrorStatuses
            /\ now - station_last_activity[st] >= InactivityTimeout

\* the step is process_station_event for the well-formed event e
StationEventStep(e) ==
    /\ StationEventWellFormed(e.station_id, e.timestamp)
    /\ SC_process_station_event(e.station_id, e.status, e.timestamp)

\* e is the first error-status event of its station since the station was last Active
\* (or since the start): the status recorded for the station is not an error status
FirstErrorOfOutage(e) ==
    /\ e.status \in ErrorStatuses
    /\ station_status[e.station_id] \notin ErrorStatuses

\* the first error-status event of an outage starts the crash period at its timestamp
C31_OutageStartsPeriod ==
    [][\A e \in StationEvents :
            (StationEventWellFormed(e.station_id, e.timestamp)
                /\ FirstErrorOfOutage(e) /\ StationEventStep(e)) =>
                active_crashes'[e.station_id]
                    = [start_time |-> e.timestamp, status |-> e.status]
      ]_vars

\* later error-status events during the same outage do not move start_time or status
C31_LaterErrorsKeepPeriod ==
    [][\A e \in StationEvents :
            (/\ StationEventWellFormed(e.station_id, e.timestamp)
             /\ e.status \in ErrorStatuses
             /\ station_status[e.station_id] \in ErrorStatuses
             /\ active_crashes[e.station_id] # NoCrash
             /\ StationEventStep(e)) =>
                active_crashes'[e.station_id] = active_crashes[e.station_id]
      ]_vars

\* the alert of a recovery reports the open period: its start and the time since then
C31_RecoveryReportsOpenPeriod ==
    [][\A e \in StationEvents :
            (/\ StationEventWellFormed(e.station_id, e.timestamp)
             /\ e.status = "Active"
             /\ StationEventStep(e)) =>
                \A a \in sc_last'.alerts :
                    /\ active_crashes[e.station_id] # NoCrash
                    /\ a.crash_timestamp = active_crashes[e.station_id].start_time
                    /\ a.duration_seconds = e.timestamp - a.crash_timestamp
                    /\ a.error_type = active_crashes[e.station_id].status
      ]_vars

\* C31: the crash period closed by a recovery to Active starts at the timestamp of the
\* first Error/Offline/Maintenance event the station reported since it was last Active:
\* later error-status events during the same outage do not move start_time or status,
\* and the reported duration is never measured from an earlier outage or from an earlier
\* inactivity flag.
C31_PeriodStartsAtFirstError ==
    [][\A e \in StationEvents :
            StationEventStep(e) =>
                /\ FirstErrorOfOutage(e) =>
                        active_crashes'[e.station_id]
                            = [start_time |-> e.timestamp, status |-> e.status]
                /\ (/\ e.status \in ErrorStatuses
                    /\ station_status[e.station_id] \in ErrorStatuses
                    /\ active_crashes[e.station_id] # NoCrash) =>
                        active_crashes'[e.station_id] = active_crashes[e.station_id]
                /\ \A a \in sc_last'.alerts :
                        /\ a.crash_timestamp = active_crashes[e.station_id].start_time
                        /\ a.error_type \in ErrorStatuses
      ]_vars

\* a recovery has reported a duration measured from an inactivity flag
C31_MeasuredFromInactivityFlag ==
    /\ sc_last.op = "event"
    /\ sc_last.status = "Active"
    /\ sc_last.prev.status \in RecoverableStatuses
    /\ \E a \in sc_last.alerts :
            /\ a.error_type = "INACTIVE"
            /\ a.crash_timestamp < sc_last.prev.timestamp

\* a recovery has reported a duration measured from an earlier outage: the period was
\* opened by a Maintenance report that an Active report followed
C31_MeasuredFromEarlierOutage ==
    /\ sc_last.op = "event"
    /\ sc_last.status = "Active"
    /\ sc_last.prev.status \in RecoverableStatuses
    /\ ~sc_last.prev.opened
    /\ \E a \in sc_last.alerts :
            /\ a.error_type = "Maintenance"
            /\ a.crash_timestamp < sc_last.prev.timestamp
            /\ Len(crash_periods[a.station_id]) = 1
            /\ sc_events = 4

(***************************************************************************)
(* Claims about the warm-up and the tallies of InventoryDiscrepancyDetector *)
(***************************************************************************)
\* C32: the detector emits no Inventory Discrepancy alert, from the snapshot-triggered
\* path or from the POS-triggered path, before at least min_rfid_events_for_baseline
\* (20) RFID events have been observed.
C32_NoAlertBeforeWarmUp ==
    inv_seen < MinRfidEventsForBaseline => inv_last.alerts = {}

\* C32 for the snapshot-triggered path alone
C32_NoSnapshotAlertBeforeWarmUp ==
    (inv_last.op = "snapshot" /\ inv_seen < MinRfidEventsForBaseline) => inv_last.alerts = {}

\* a POS transaction has returned an alert with no RFID event observed at all
C32_PosAlertWithoutRfid ==
    /\ inv_last.op = "pos"
    /\ inv_seen = 0
    /\ ~rfid_baseline_established
    /\ \E a \in inv_last.alerts :
            a.event_name = "Inventory Discrepancy" /\ a.discrepancy_type = "SHORTAGE"

\* the tallies one RFID read at `location` for `sku` should leave, as the fold of the
\* specification: +1 on IN_SCAN_AREA, -1 floored at zero on OUT_SCAN_AREA
FoldedTally(tally, sku, location) ==
    [k \in Skus |->
        IF k # sku THEN tally[k]
        ELSE IF location = "IN_SCAN_AREA" THEN tally[k] + 1
        ELSE IF location = "OUT_SCAN_AREA" THEN Max(0, tally[k] - 1)
        ELSE tally[k]]

\* C33: after any sequence of RFID events the presence tally of every SKU is
\* non-negative and equals the fold that adds 1 on each IN_SCAN_AREA read and subtracts
\* 1, floored at zero, on each OUT_SCAN_AREA read; OUT_OF_AREA reads, reads lacking sku,
\* epc, location or a parseable timestamp, POS transactions and inventory snapshots
\* leave every tally unchanged.
C33_TallyIsTheFold ==
    [][/\ \A k \in Skus : rfid_tally[k] >= 0 /\ rfid_tally'[k] >= 0
       /\ \A e \in InvRfidEvents :
            INV_process_rfid_event(e.sku, e.epc, e.location, e.timestamp) =>
                IF InvRfidWellFormed(e.sku, e.epc, e.location, e.timestamp)
                THEN rfid_tally' = FoldedTally(rfid_tally, e.sku, e.location)
                ELSE rfid_tally' = rfid_tally
       /\ inv_last'.op \in {"snapshot", "pos"} => rfid_tally' = rfid_tally
      ]_vars

\* an OUT_SCAN_AREA read has met a tally of zero and left it there: reads were observed,
\* the last call was a read, and no SKU is tallied
C33_Witness ==
    /\ inv_last.op = "rfid"
    /\ inv_seen >= 3
    /\ \A k \in Skus : rfid_tally[k] = 0
    /\ rfid_detected

\* tallies went up and came down again between POS transactions and snapshots
C33_WitnessCounted ==
    /\ inv_last.op = "rfid"
    /\ inv_seen = 5
    /\ rfid_tally["A"] = 3
    /\ inv_pos = 2
    /\ recorded_inventory # NoData

\* the alerts for sku k among those the snapshot loop returns for the recorded counts
\* `data` and the tallies `tally`
LoopAlertsFor(data, tally, k) ==
    {a \in SnapshotAlerts(data, tally, 0) : a.SKU = k}

C34_WitnessShortage ==
    /\ inv_last.op = "pos"
    /\ \E a \in inv_last.alerts :
            /\ a.discrepancy_type = "SHORTAGE"
            /\ a.Actual_Inventory >= 1
            /\ a.Expected_Inventory = recorded_inventory[a.SKU]

(***************************************************************************)
(* Claims about the correlation window of BarcodeSwitchingDetector         *)
(***************************************************************************)
\* the recognitions stored for the station of the last POS scan
C35_Stored ==
    {recognition_events[bs_last.station_id][i] :
        i \in 1..Len(recognition_events[bs_last.station_id])}

\* the last call was a well-formed POS scan
C35_PosScan ==
    /\ bs_last.op = "pos"
    /\ Present(bs_last.station_id) /\ Present(bs_last.sku)
    /\ PresentTs(bs_last.timestamp) /\ Parses(bs_last.timestamp)

\* the POS scan at p used a recognition of its station with accuracy >= 0.6 at r, with
\* lo <= p - r <= hi, and no stored recognition with p - r in that range is later
C35_UsedWithin(lo, hi) ==
    LET p == bs_last.timestamp
        used == bs_last.latest
    IN  C35_PosScan =>
            /\ used # NoRecognition =>
                    /\ used \in C35_Stored
                    /\ used.accuracy >= MinAccuracy
                    /\ lo <= p - used.timestamp /\ p - used.timestamp <= hi
                    /\ \A x \in C35_Stored :
                            (lo <= p - x.timestamp /\ p - x.timestamp <= hi)
                                => x.timestamp <= used.timestamp
            /\ \A x \in C35_Stored : x.accuracy >= MinAccuracy

C35_WitnessBefore ==
    /\ C35_PosScan
    /\ bs_last.latest = NoRecognition
    /\ \E x \in C35_Stored : x.timestamp - bs_last.timestamp = TimeWindow

\* of two recognitions in the window, the later one was used
C35_WitnessLatest ==
    /\ C35_PosScan
    /\ bs_last.latest # NoRecognition
    /\ \E x \in C35_Stored :
            /\ x.timestamp < bs_last.latest.timestamp
            /\ bs_last.timestamp - x.timestamp <= TimeWindow

(***************************************************************************)
(* Claims about QueueMonitor's optional dwell time and station action      *)
(***************************************************************************)
\* the last call was process_queue_event on a well-formed snapshot without
\* average_dwell_time
C36_SnapshotWithoutDwell ==
    /\ qm_last.op = "queue"
    /\ QueueEventWellFormed(qm_last.station_id, qm_last.customer_count, qm_last.timestamp)
    /\ qm_last.average_dwell_time = NoDwell

C36_Names == {qm_last.alerts[i].event_name : i \in 1..Len(qm_last.alerts)}

\* the call returned; it returned a Long Queue Length alert iff customer_count >=
\* threshold, and neither a Long Wait Time nor a Staffing Needs alert
C36_ProcessedAsSpecified ==
    /\ qm_last.result = "returned"
    /\ ("Long Queue Length" \in C36_Names) <=> (qm_last.customer_count >= LongQueueThreshold)
    /\ "Long Wait Time" \notin C36_Names
    /\ "Staffing Needs" \notin C36_Names

\* C36: average_dwell_time is optional in a queue snapshot: a snapshot that omits it is
\* processed without error, the long-queue check still applies (customer_count >=
\* threshold yields a Long Queue Length alert that reaches the sink), and the long-wait
\* and staffing checks simply do not fire.
C36_DwellTimeOptional ==
    C36_SnapshotWithoutDwell => C36_ProcessedAsSpecified

\* C36 for snapshots with fewer than 4 customers
C36_DwellTimeOptionalShortQueue ==
    (C36_SnapshotWithoutDwell /\ qm_last.customer_count < StaffingCount)
        => C36_ProcessedAsSpecified

\* a snapshot without dwell time and with at least 4 customers always raises
C36_LongerQueueRaises ==
    (C36_SnapshotWithoutDwell /\ qm_last.customer_count >= StaffingCount)
        => (qm_last.result = "TypeError" /\ qm_last.alerts = <<>>)

\* a snapshot over the long-queue threshold without dwell time has raised
C36_LongQueueAlertLost ==
    /\ C36_SnapshotWithoutDwell
    /\ qm_last.customer_count >= LongQueueThreshold
    /\ qm_last.result = "TypeError"
    /\ qm_last.alerts = <<>>

\* the station's last 5 samples after the last call, the current snapshot included
C37_Recent ==
    LET history == queue_history[qm_last.station_id]
    IN  SubSeq(history, Max(1, Len(history) - 4), Len(history))

\* their mean is >= long_queue_threshold
C37_MeanReachesThreshold ==
    SumCounts(C37_Recent) >= LongQueueThreshold * Len(C37_Recent)

C37_StationActionProduced ==
    \E i \in 1..Len(qm_last.alerts) : qm_last.alerts[i].event_name = "Checkout Station Action"

C37_Snapshot ==
    /\ qm_last.op = "queue"
    /\ QueueEventWellFormed(qm_last.station_id, qm_last.customer_count, qm_last.timestamp)

\* C37: on each queue snapshot a Checkout Station Action alert is produced iff the mean
\* of the station's last 5 customer_count samples (all of them when fewer than 5 are in
\* the history, the current snapshot included) is >= long_queue_threshold.
C37_StationActionIffMean ==
    C37_Snapshot => (C37_StationActionProduced <=> C37_MeanReachesThreshold)

\* what the code does: the alert needs the call to get as far as the check, at least 3
\* samples in the history, and the mean
C37_StationActionAsCoded ==
    C37_Snapshot =>
        (C37_StationActionProduced <=>
            /\ qm_last.result = "returned"
            /\ Len(C37_Recent) >= 3
            /\ C37_MeanReachesThreshold)

\* a snapshot with the mean over the threshold and fewer than 3 samples gave no alert
C37_TooFewSamples ==
    /\ C37_Snapshot
    /\ qm_last.result = "returned"
    /\ Len(queue_history[qm_last.station_id]) = 2
    /\ C37_MeanReachesThreshold
    /\ ~C37_StationActionProduced

\* a snapshot with 3 or more samples and the mean over the threshold gave no alert,
\* because the staffing check raised before the station-action check
C37_LostToStaffingCheck ==
    /\ C37_Snapshot
    /\ qm_last.result = "TypeError"
    /\ Len(queue_history[qm_last.station_id]) >= 3
    /\ C37_MeanReachesThreshold
    /\ ~C37_StationActionProduced

\* the alert was produced on the mean of three samples, the current one under the
\* threshold
C37_AlertOnMean ==
    /\ C37_Snapshot
    /\ C37_StationActionProduced
    /\ qm_last.customer_count < LongQueueThreshold
    /\ Len(queue_history[qm_last.station_id]) = 3

(***************************************************************************)
(* Claims about EventCorrelator under two threads                          *)
(***************************************************************************)
\* the enriched event is the newest entry of every index it belongs to
StoredNewest(x) ==
    /\ Present(x.station_id) =>
            /\ x.station_id \in ct_keys.station
            /\ events_by_station[x.station_id] # <<>>
            /\ events_by_station[x.station_id][Len(events_by_station[x.station_id])] = x
    /\ Present(x.customer_id) =>
            /\ x.customer_id \in ct_keys.customer
            /\ events_by_customer[x.customer_id] # <<>>
            /\ events_by_customer[x.customer_id][Len(events_by_customer[x.customer_id])] = x

\* the ingestion thread has returned from add_event for an event with a parseable timestamp
AddReturned ==
    /\ ct_pc["ingest"] = "idle"
    /\ ct_ingest.op = "add_event"
    /\ ct_ingest.enriched.id # NotStored

\* the cleanup task has finished pruning the indices it found when it took the lock
CleanupFinished ==
    ct_pc["cleanup"] = "leave" \/ (ct_pc["cleanup"] = "idle" /\ ct_cleanup.cutoff_time # NoTs)

\* the indices are what the cleanup found, without the entries older than the horizon,
\* and the keys are those whose entry did not become empty
PrunedExactly ==
    /\ events_by_station = [st \in CorrelatorStations |->
            RecentEvents(ct_cleanup.station_before[st], ct_cleanup.cutoff_time)]
    /\ events_by_customer = [c \in CorrelatorCustomers |->
            RecentEvents(ct_cleanup.customer_before[c], ct_cleanup.cutoff_time)]
    /\ ct_keys.station = {st \in ct_cleanup.keys_before.station :
            RecentEvents(ct_cleanup.station_before[st], ct_cleanup.cutoff_time) # <<>>}
    /\ ct_keys.customer = {c \in ct_cleanup.keys_before.customer :
            RecentEvents(ct_cleanup.customer_before[c], ct_cleanup.cutoff_time) # <<>>}

\* C38: add_event, find_related_events and cleanup_old_events are atomic with respect to
\* one another when called from the ingestion thread and the cleanup task: in every
\* interleaving an event added while a cleanup runs is in its station and customer
\* indices afterwards unless it is older than the retention horizon, cleanup drops
\* exactly the entries older than the horizon and deletes a key iff it became empty, and
\* no reader observes a partially pruned index.
C38_AtomicUnderLock ==
    /\ ~(InsideLock(ct_pc["ingest"]) /\ InsideLock(ct_pc["cleanup"]))
    /\ (AddReturned /\ ct_ingest.overlapped /\ ct_pc["cleanup"] \in {"idle", "lock"}) =>
            \/ StoredNewest(ct_ingest.enriched)
            \/ /\ ct_cleanup.cutoff_time # NoTs
               /\ ct_ingest.enriched.parsed_timestamp < ct_cleanup.cutoff_time
    /\ (ct_pc["cleanup"] = "leave") => PrunedExactly
    /\ ~ct_cleanup.seen_adding
    /\ (ct_pc["ingest"] \in {"leave", "idle"} /\ ct_ingest.op = "find_related_events") =>
            /\ ~ct_ingest.seen_pruning
            /\ ct_ingest.returned =
                    FindRelatedEvents(ct_ingest.seen_station, ct_ingest.seen_customer,
                                      ct_ingest.ref, ct_ingest.dataset_types)

\* an add_event that had to wait for a running cleanup has stored its event, older than
\* the horizon, after the cleanup dropped an entry
C38_Witness ==
    /\ AddReturned
    /\ ct_ingest.waited
    /\ ct_pc["cleanup"] = "idle"
    /\ ct_cleanup.cutoff_time # NoTs
    /\ ct_ingest.enriched.parsed_timestamp < ct_cleanup.cutoff_time
    /\ StoredNewest(ct_ingest.enriched)
    /\ \E st \in CorrelatorStations :
            Len(ct_cleanup.station_before[st]) > Len(ct_ingest.seen_station[st])

\* a cleanup that had to wait for a running add_event has dropped the event it added
C38_WitnessDropped ==
    /\ AddReturned
    /\ ct_ingest.overlapped /\ ~ct_ingest.waited
    /\ ct_pc["cleanup"] = "idle"
    /\ ct_cleanup.cutoff_time # NoTs
    /\ ct_ingest.enriched \in
            UNION {Entries(ct_cleanup.station_before[st]) : st \in CorrelatorStations}
    /\ ct_ingest.enriched.parsed_timestamp < ct_cleanup.cutoff_time
    /\ ~StoredNewest(ct_ingest.enriched)
    /\ ct_keys.station = {}

\* a query that had to wait for a running cleanup has returned an event
C38_WitnessReader ==
    /\ ct_pc["ingest"] = "idle"
    /\ ct_ingest.op = "find_related_events"
    /\ ct_ingest.waited
    /\ ct_ingest.returned # <<>>
    /\ ct_cleanup.runs >= 1

(***************************************************************************)
(* Claims about the engine's worker threads over several runs              *)
(***************************************************************************)
\* C39: across any sequence of start() and stop() calls on the engine, at most one
\* cleanup worker loop and at most one timeout worker loop are live at any time: start()
\* while running spawns nothing, every worker spawned before a stop() eventually
\* terminates, and a start() issued after a stop() does not leave the workers of the
\* previous run still running alongside the new ones.
C39_OneWorkerLoopOfEachKind ==
    \A loop \in WorkerLoops : Cardinality(LiveWorkers(lc_workers, loop)) <= 1

\* start() while running spawns nothing
C39_StartWhileRunningSpawnsNothing ==
    (lc_last.op = "start" /\ lc_last.was_running) => lc_last.spawned = {}

\* every worker that was live at a stop() eventually terminates
C39_StoppedWorkersTerminate ==
    \A i \in WorkerThreads : (i \in lc_stopped) ~> (lc_workers[i] = "done")

\* a worker that was live at a stop() terminates unless the engine is started again first
C39_StoppedWorkersTerminateUnlessRestarted ==
    \A i \in WorkerThreads :
        (i \in lc_stopped /\ ~running) ~> (lc_workers[i] = "done" \/ running)

\* without a start() after the first one, at most one worker of each kind is live
C39_OneWorkerLoopInFirstRun ==
    lc_starts <= 1 => C39_OneWorkerLoopOfEachKind

\* after stop() and start() the cleanup worker of the first run is in its loop again,
\* next to the one of the second run
C39_TwoCleanupWorkers ==
    /\ running
    /\ lc_starts = 2
    /\ <<"cleanup", 1>> \in lc_stopped
    /\ lc_workers[<<"cleanup", 1>>] = "sleep"
    /\ lc_workers[<<"cleanup", 2>>] = "sleep"

(***************************************************************************)
(* Claims about pulling alerts from two threads                            *)
(***************************************************************************)
\* C40: every call of get_alerts and get_all_alerts terminates, also when two consumers
\* pull at the same time: no pull waits forever on an empty queue after the other
\* consumer took the last alert between its emptiness check and its get.
C40_EveryPullReturns ==
    \A c \in Consumers : (cp_pc[c] # "idle") ~> (cp_pc[c] = "idle")

\* a pull is inside Queue.get() while the queue is empty
BlockedInGet(c) == cp_pc[c] = "get" /\ alert_queue = <<>>

\* a pull waits inside get() on an empty queue
C40_BlockedOnEmptyQueue ==
    \E c \in Consumers : BlockedInGet(c)

\* a pull only ever waits on an empty queue after the other consumer took an alert
\* between its emptiness check and its get
C40_BlockedOnlyAfterRace ==
    \A c \in Consumers : BlockedInGet(c) => cp_raced[c]

\* a pull returns unless it is left waiting on the empty queue by such a race
C40_PullReturnsUnlessRaced ==
    \A c \in Consumers :
        (cp_pc[c] # "idle") ~> (cp_pc[c] = "idle" \/ (BlockedInGet(c) /\ cp_raced[c]))

\* a pull never hands out more than max_alerts alerts
C40_PullWithinLimit ==
    \A c \in Consumers :
        cp_call[c].op = "get_alerts" => cp_call[c].count <= cp_call[c].max_alerts

====
